---- MODULE Spec2Model ----
(***************************************************************************)
(* A model of walksnail-osd-tool's backend: the two-subprocess render      *)
(* pipeline of ffmpeg/render.rs with its message protocol, the telemetry   *)
(* (SRT) line parsers and file loader of srt/frame.rs and srt/srt_file.rs, *)
(* the embedded-OSD extraction of osd/artlynk.rs and the glyph compositor  *)
(* of overlay/osd.rs.                                                      *)
(*                                                                         *)
(* Strings are sequences of one-character strings, so that find, contains, *)
(* trim_end_matches, the regex scan and the number parsers are computed    *)
(* character by character as the code computes them.  Option<T> is a       *)
(* sequence of length at most one: None is << >>, Some(v) is <<v>>.        *)
(***************************************************************************)
EXTENDS Integers, Sequences, FiniteSets, TLC

None == << >>
Some(v) == <<v>>
IsSome(o) == o # << >>
Unwrap(o) == o[1]

(***************************************************************************)
(* Characters and substrings (core::str).                                  *)
(***************************************************************************)
Digits == {"0", "1", "2", "3", "4", "5", "6", "7", "8", "9"}

\* char::is_digit(10)
is_digit(c) == c \in Digits

\* char::is_whitespace, restricted to the white space the inputs contain
is_whitespace(c) == c \in {" ", "\t", "\n", "\r"}

DigitVal(c) ==
    CASE c = "0" -> 0 [] c = "1" -> 1 [] c = "2" -> 2 [] c = "3" -> 3 [] c = "4" -> 4
      [] c = "5" -> 5 [] c = "6" -> 6 [] c = "7" -> 7 [] c = "8" -> 8 [] c = "9" -> 9

\* key occurs in s at position i (1-based)
StartsWithAt(s, key, i) ==
    /\ i >= 1
    /\ i + Len(key) - 1 <= Len(s)
    /\ \A k \in 1..Len(key) : s[i + k - 1] = key[k]

\* str::find: the position of the first occurrence of key in s, 0 when there is none
find(s, key) ==
    LET hits == {i \in 1..(Len(s) + 1) : StartsWithAt(s, key, i)}
    IN  IF hits = {} THEN 0 ELSE CHOOSE i \in hits : \A j \in hits : i <= j

\* str::contains
contains(s, key) == find(s, key) # 0

\* the suffix of s that starts at position i
From(s, i) == SubSeq(s, i, Len(s))

RECURSIVE StripLeadingZeros(_)
StripLeadingZeros(s) ==
    IF Len(s) > 1 /\ s[1] = "0" THEN StripLeadingZeros(Tail(s)) ELSE s

RECURSIVE DigitsValue(_, _)
DigitsValue(s, acc) ==
    IF s = << >> THEN acc ELSE DigitsValue(Tail(s), 10 * acc + DigitVal(s[1]))

\* s, a digit string without leading zeros, denotes a number greater than max's
RECURSIVE DigitsGreater(_, _)
DigitsGreater(s, max) ==
    IF Len(s) # Len(max) THEN Len(s) > Len(max)
    ELSE IF s = << >> THEN FALSE
    ELSE IF s[1] # max[1] THEN DigitVal(s[1]) > DigitVal(max[1])
    ELSE DigitsGreater(Tail(s), Tail(max))

U8Max == <<"2", "5", "5">>
U16Max == <<"6", "5", "5", "3", "5">>
U32Max == <<"4", "2", "9", "4", "9", "6", "7", "2", "9", "5">>

(***************************************************************************)
(* <unsigned>::from_str: an optional "+", then one or more digits, an      *)
(* error on anything else and on overflow of the type (max is the type's   *)
(* largest value in digits).                                               *)
(***************************************************************************)
ParseUnsigned(s, max) ==
    LET body == IF s # << >> /\ s[1] = "+" THEN Tail(s) ELSE s
    IN  IF body = << >> \/ \E i \in 1..Len(body) : ~is_digit(body[i]) THEN None
        ELSE LET sig == StripLeadingZeros(body)
             IN  IF DigitsGreater(sig, max) THEN None ELSE Some(DigitsValue(sig, 0))

RECURSIVE StripTrailingZeros(_)
StripTrailingZeros(s) ==
    IF s # << >> /\ s[Len(s)] = "0" THEN StripTrailingZeros(SubSeq(s, 1, Len(s) - 1)) ELSE s

(***************************************************************************)
(* f32::from_str on decimal notation: an optional sign, digits with at     *)
(* most one ".", at least one digit.  The value is <<sign, integer part,   *)
(* fraction digits without trailing zeros>>, which is one-to-one with the  *)
(* f32 for the short decimals of the inputs (zero has sign 1, as -0.0 ==   *)
(* 0.0).  Exponents, "inf" and "nan" are not among the inputs.             *)
(***************************************************************************)
ParseF32(s) ==
    LET body == IF s # << >> /\ s[1] \in {"+", "-"} THEN Tail(s) ELSE s
        dots == {i \in 1..Len(body) : body[i] = "."}
        dot  == IF dots = {} THEN Len(body) + 1 ELSE CHOOSE i \in dots : TRUE
        ip   == SubSeq(body, 1, dot - 1)
        fp   == SubSeq(body, dot + 1, Len(body))
    IN  IF \/ Cardinality(dots) > 1
           \/ ip \o fp = << >>
           \/ \E i \in 1..Len(body) : ~(is_digit(body[i]) \/ body[i] = ".")
        THEN None
        ELSE LET iv   == DigitsValue(StripLeadingZeros(ip), 0)
                 fr   == StripTrailingZeros(fp)
                 zero == iv = 0 /\ fr = << >>
             IN  Some(<<IF s[1] = "-" /\ ~zero THEN -1 ELSE 1, iv, fr>>)

(***************************************************************************)
(* The log lines of the transcoder.  A line is named in the state by an    *)
(* identifier and LogText gives its characters.                            *)
(***************************************************************************)
\* keys of a progress line
ProgressKeys ==
     \* "frame="
    [frame |->
        <<"f","r","a","m","e","=">>,
     \* "fps="
     fps |->
        <<"f","p","s","=">>,
     \* "speed="
     speed |->
        <<"s","p","e","e","d","=">>,
     \* "size="
     size |->
        <<"s","i","z","e","=">>,
     \* "time="
     time |->
        <<"t","i","m","e","=">>,
     \* "bitrate="
     bitrate |->
        <<"b","i","t","r","a","t","e","=">>]
\* texts that mark a fatal encoder log line
FatalSubstrings ==
     \* "Error initializing output stream"
    [init |->
        <<"E","r","r","o","r"," ","i","n","i","t","i","a","l","i","z","i","n","g"," ","o","u","t",
          "p","u","t"," ","s","t","r","e","a","m">>,
     \* "[error] Cannot load"
     load |->
        <<"[","e","r","r","o","r","]"," ","C","a","n","n","o","t"," ","l","o","a","d">>]

\* log lines
LogTexts ==
     \* ""
    [T_empty |->
        << >>,
     \* "Press [q] to stop"
     T_plain |->
        <<"P","r","e","s","s"," ","[","q","]"," ","t","o"," ","s","t","o","p">>,
     \* "frame=  100 fps= 25 q=28.0 size=     256kB time=00:00:04.00 bitrate= 524.3kbits/s speed=1.0x"
     T_progress |->
        <<"f","r","a","m","e","="," "," ","1","0","0"," ","f","p","s","="," ","2","5"," ","q","=",
          "2","8",".","0"," ","s","i","z","e","="," "," "," "," "," ","2","5","6","k","B"," ","t",
          "i","m","e","=","0","0",":","0","0",":","0","4",".","0","0"," ","b","i","t","r","a","t",
          "e","="," ","5","2","4",".","3","k","b","i","t","s","/","s"," ","s","p","e","e","d","=",
          "1",".","0","x">>,
     \* "frame=7 fps=30 speed=2"
     T_short |->
        <<"f","r","a","m","e","=","7"," ","f","p","s","=","3","0"," ","s","p","e","e","d","=","2">>,
     \* "frame=n7 fps=30 speed=2"
     T_skip |->
        <<"f","r","a","m","e","=","n","7"," ","f","p","s","=","3","0"," ","s","p","e","e","d","=",
          "2">>,
     \* "frame=7 fps=30"
     T_no_speed |->
        <<"f","r","a","m","e","=","7"," ","f","p","s","=","3","0">>,
     \* "frame=7 speed=2"
     T_no_fps |->
        <<"f","r","a","m","e","=","7"," ","s","p","e","e","d","=","2">>,
     \* "frame=1.5 fps=30 speed=2"
     T_bad_frame |->
        <<"f","r","a","m","e","=","1",".","5"," ","f","p","s","=","3","0"," ","s","p","e","e","d",
          "=","2">>,
     \* "frame=7 fps=3-0 speed=2"
     T_bad_fps |->
        <<"f","r","a","m","e","=","7"," ","f","p","s","=","3","-","0"," ","s","p","e","e","d","=",
          "2">>,
     \* "Error initializing output stream 0:0"
     T_init |->
        <<"E","r","r","o","r"," ","i","n","i","t","i","a","l","i","z","i","n","g"," ","o","u","t",
          "p","u","t"," ","s","t","r","e","a","m"," ","0",":","0">>,
     \* "[error] Cannot load nvcuda.dll"
     T_load |->
        <<"[","e","r","r","o","r","]"," ","C","a","n","n","o","t"," ","l","o","a","d"," ","n","v",
          "c","u","d","a",".","d","l","l">>,
     \* "frame=7 fps=30 speed=2 Error initializing output stream"
     T_progress_init |->
        <<"f","r","a","m","e","=","7"," ","f","p","s","=","3","0"," ","s","p","e","e","d","=","2",
          " ","E","r","r","o","r"," ","i","n","i","t","i","a","l","i","z","i","n","g"," ","o","u",
          "t","p","u","t"," ","s","t","r","e","a","m">>]

LogTextIds ==
    {"T_empty", "T_plain", "T_progress", "T_short", "T_skip", "T_no_speed",
     "T_no_fps", "T_bad_frame", "T_bad_fps", "T_init", "T_load", "T_progress_init"}

LogText(id) ==
    CASE id = "T_empty" -> LogTexts.T_empty
      [] id = "T_plain" -> LogTexts.T_plain
      [] id = "T_progress" -> LogTexts.T_progress
      [] id = "T_short" -> LogTexts.T_short
      [] id = "T_skip" -> LogTexts.T_skip
      [] id = "T_no_speed" -> LogTexts.T_no_speed
      [] id = "T_no_fps" -> LogTexts.T_no_fps
      [] id = "T_bad_frame" -> LogTexts.T_bad_frame
      [] id = "T_bad_fps" -> LogTexts.T_bad_fps
      [] id = "T_init" -> LogTexts.T_init
      [] id = "T_load" -> LogTexts.T_load
      [] id = "T_progress_init" -> LogTexts.T_progress_init

(***************************************************************************)
(* parse_val: the run of digits, "." and "-" that follows the first        *)
(* occurrence of key.  White space and any other character are skipped     *)
(* until the run starts, and the first of them after it ends the run.      *)
(***************************************************************************)
RECURSIVE parse_val_scan(_, _, _)
parse_val_scan(rest, result, found_content) ==
    IF rest = << >> THEN result
    ELSE LET c == rest[1]
         IN  IF is_whitespace(c)
             THEN IF found_content THEN result
                  ELSE parse_val_scan(Tail(rest), result, found_content)
             ELSE IF is_digit(c) \/ c = "." \/ c = "-"
             THEN parse_val_scan(Tail(rest), Append(result, c), TRUE)
             ELSE IF found_content THEN result
             ELSE parse_val_scan(Tail(rest), result, found_content)

parse_val(s, key) ==
    IF find(s, key) = 0 THEN None
    ELSE LET result == parse_val_scan(From(s, find(s, key) + Len(key)), << >>, FALSE)
         IN  IF result = << >> THEN None ELSE Some(result)

ParseU32(s) == ParseUnsigned(s, U32Max)

\* Option::and_then(|s| s.parse().ok()), and parse_val(..)?.parse().ok()
ParseOptU32(o) == IF IsSome(o) THEN ParseU32(Unwrap(o)) ELSE None
ParseOptF32(o) == IF IsSome(o) THEN ParseF32(Unwrap(o)) ELSE None
ZeroF32 == <<1, 0, << >> >>

(***************************************************************************)
(* manual_parse_progress: Some(<<frame, fps, speed, size_kb, time,         *)
(* bitrate_kbps>>) when the line holds "frame=" and "fps=" and frame, fps  *)
(* and speed are found and parse; None otherwise.  (q is the constant 0.0  *)
(* and raw_log_message the line itself; no handler reads them.)            *)
(***************************************************************************)
manual_parse_progress(log_line) ==
    IF ~contains(log_line, ProgressKeys.frame) \/ ~contains(log_line, ProgressKeys.fps) THEN None
    ELSE LET frame == ParseOptU32(parse_val(log_line, ProgressKeys.frame))
             fps   == ParseOptF32(parse_val(log_line, ProgressKeys.fps))
             speed == ParseOptF32(parse_val(log_line, ProgressKeys.speed))
             size  == ParseOptU32(parse_val(log_line, ProgressKeys.size))
             time  == parse_val(log_line, ProgressKeys.time)
             rate  == ParseOptF32(parse_val(log_line, ProgressKeys.bitrate))
         IN  IF ~IsSome(frame) \/ ~IsSome(fps) \/ ~IsSome(speed) THEN None
             ELSE Some(<<Unwrap(frame), Unwrap(fps), Unwrap(speed),
                         IF IsSome(size) THEN Unwrap(size) ELSE 0,
                         IF IsSome(time) THEN Unwrap(time) ELSE << >>,
                         IF IsSome(rate) THEN Unwrap(rate) ELSE ZeroF32>>)

(***************************************************************************)
(* FfmpegEvent.  An event is [kind, level, text]; level and text are "-"   *)
(* for the kinds without them.  A structured Progress event carries the    *)
(* progress the transcoder reported, here StructuredProgress.              *)
(***************************************************************************)
LogLevels == {"Info", "Warning", "Error", "Fatal", "Unknown"}

Ev(kind) == [kind |-> kind, level |-> "-", text |-> "-"]
Log(level, text) == [kind |-> "Log", level |-> level, text |-> text]

LogEvents == {Log(l, t) : l \in LogLevels, t \in LogTextIds}
FfmpegEvents ==
    {Ev("Progress"), Ev("LogEOF"), Ev("Done"), Ev("OutputFrame"), Ev("Other")} \cup LogEvents

StructuredProgress == <<1, <<1, 25, << >> >>, <<1, 1, << >> >>, 0, << >>, ZeroF32>>

(***************************************************************************)
(* FromFfmpegMessage: <<variant, payload>>.                                *)
(***************************************************************************)
Progress(p) == <<"Progress", p>>
DecoderFatalError(e) == <<"DecoderFatalError", <<e>> >>
EncoderFatalError(e) == <<"EncoderFatalError", <<e>> >>
DecoderFinished == <<"DecoderFinished", << >> >>
EncoderFinished == <<"EncoderFinished", << >> >>

\* One ffmpeg_sender.send(msg): followed by .unwrap() or by .ok()
SendUnwrap(msg) == [msg |-> msg, mode |-> "unwrap"]
SendOk(msg) == [msg |-> msg, mode |-> "ok"]

\* the progress message both handlers send first for a log line that parses
ManualProgressSends(e) ==
    IF IsSome(manual_parse_progress(LogText(e)))
    THEN <<SendOk(Progress(Unwrap(manual_parse_progress(LogText(e)))))>>
    ELSE << >>

\* handle_encoder_events with the decoder's rule: fatal by severity, not by text
handle_encoder_events_by_level(ffmpeg_event) ==
    CASE ffmpeg_event.kind = "Progress" -> <<SendUnwrap(Progress(StructuredProgress))>>
      [] ffmpeg_event.kind = "Log" ->
            ManualProgressSends(ffmpeg_event.text)
            \o (IF ffmpeg_event.level = "Fatal"
                THEN <<SendUnwrap(EncoderFatalError(ffmpeg_event.text))>>
                ELSE << >>)
      [] ffmpeg_event.kind = "LogEOF" -> <<SendUnwrap(EncoderFinished)>>
      [] OTHER -> << >>

\* handle_decoder_events with Error-level lines taken for fatal
handle_decoder_events_error_fatal(ffmpeg_event) ==
    CASE ffmpeg_event.kind = "Progress" -> <<SendUnwrap(Progress(StructuredProgress))>>
      [] ffmpeg_event.kind = "Log" ->
            ManualProgressSends(ffmpeg_event.text)
            \o (IF ffmpeg_event.level \in {"Fatal", "Error"}
                THEN <<SendUnwrap(DecoderFatalError(ffmpeg_event.text))>>
                ELSE << >>)
      [] ffmpeg_event.kind \in {"Done", "LogEOF"} -> <<SendUnwrap(DecoderFinished)>>
      [] OTHER -> << >>

\* handle_decoder_events with every send result dropped by .ok()
handle_decoder_events_quiet(ffmpeg_event) ==
    CASE ffmpeg_event.kind = "Progress" -> <<SendOk(Progress(StructuredProgress))>>
      [] ffmpeg_event.kind = "Log" ->
            ManualProgressSends(ffmpeg_event.text)
            \o (IF ffmpeg_event.level = "Fatal"
                THEN <<SendOk(DecoderFatalError(ffmpeg_event.text))>>
                ELSE << >>)
      [] ffmpeg_event.kind \in {"Done", "LogEOF"} -> <<SendOk(DecoderFinished)>>
      [] OTHER -> << >>

\* handle_encoder_events with the fatal test only for lines that are not progress
handle_encoder_events_progress_else_fatal(ffmpeg_event) ==
    CASE ffmpeg_event.kind = "Progress" -> <<SendUnwrap(Progress(StructuredProgress))>>
      [] ffmpeg_event.kind = "Log" ->
            IF ManualProgressSends(ffmpeg_event.text) # << >>
            THEN ManualProgressSends(ffmpeg_event.text)
            ELSE IF \/ contains(LogText(ffmpeg_event.text), FatalSubstrings.init)
                    \/ contains(LogText(ffmpeg_event.text), FatalSubstrings.load)
            THEN <<SendUnwrap(EncoderFatalError(ffmpeg_event.text))>>
            ELSE << >>
      [] ffmpeg_event.kind = "LogEOF" -> <<SendUnwrap(EncoderFinished)>>
      [] OTHER -> << >>

(***************************************************************************)
(* handle_encoder_events and handle_decoder_events: the sends the handler  *)
(* makes for one event, in order.                                          *)
(***************************************************************************)
handle_encoder_events(ffmpeg_event) ==
    CASE ffmpeg_event.kind = "Progress" -> <<SendUnwrap(Progress(StructuredProgress))>>
      [] ffmpeg_event.kind = "Log" ->
            ManualProgressSends(ffmpeg_event.text)
            \o (IF \/ contains(LogText(ffmpeg_event.text), FatalSubstrings.init)
                   \/ contains(LogText(ffmpeg_event.text), FatalSubstrings.load)
                THEN <<SendUnwrap(EncoderFatalError(ffmpeg_event.text))>>
                ELSE << >>)
      [] ffmpeg_event.kind = "LogEOF" -> <<SendUnwrap(EncoderFinished)>>
      [] OTHER -> << >>

handle_decoder_events(ffmpeg_event) ==
    CASE ffmpeg_event.kind = "Progress" -> <<SendUnwrap(Progress(StructuredProgress))>>
      [] ffmpeg_event.kind = "Log" ->
            ManualProgressSends(ffmpeg_event.text)
            \o (IF ffmpeg_event.level = "Fatal"
                THEN <<SendUnwrap(DecoderFatalError(ffmpeg_event.text))>>
                ELSE << >>)
      [] ffmpeg_event.kind \in {"Done", "LogEOF"} -> <<SendUnwrap(DecoderFinished)>>
      [] OTHER -> << >>

(***************************************************************************)
(* The outbound channel (crossbeam_channel::unbounded): a FIFO queue of    *)
(* [src, idx, msg], where src and idx record the stream and the ordinal of *)
(* the event the message was sent for.  A send fails when the receiver has *)
(* been dropped; the failure panics the sending thread under .unwrap() and *)
(* is ignored under .ok().                                                 *)
(***************************************************************************)
\* a queue that hands out the newest message first
Enqueue_front(chan, entry) == <<entry>> \o chan

Enqueue(chan, entry) == Append(chan, entry)

\* the channel after the sends of one handler call, and whether the call panicked
RECURSIVE RunSends(_, _, _, _, _)
RunSends(sends, chan, rx_alive, src, idx) ==
    IF sends = << >> THEN [chan |-> chan, panicked |-> FALSE]
    ELSE IF rx_alive
    THEN RunSends(Tail(sends), Enqueue(chan, [src |-> src, idx |-> idx, msg |-> sends[1].msg]),
                  rx_alive, src, idx)
    ELSE IF sends[1].mode = "unwrap" THEN [chan |-> chan, panicked |-> TRUE]
    ELSE RunSends(Tail(sends), chan, rx_alive, src, idx)

\* a fatal-error message is on the channel
HasFatal(chan) ==
    \E i \in 1..Len(chan) : chan[i].msg[1] \in {"DecoderFatalError", "EncoderFatalError"}

HandlerSends(src, ev) ==
    IF src = "decoder" THEN handle_decoder_events(ev) ELSE handle_encoder_events(ev)

(***************************************************************************)
(* Telemetry lines (srt/frame.rs).  The generic schema scans the line with *)
(* the regular expression (\w+):\s*([^:\s]+); the Ascent and debug schemas  *)
(* are parse_display formats: literal segments with a lazy capture between *)
(* each two, anchored at both ends, every capture then parsed as the type  *)
(* of its field.                                                           *)
(***************************************************************************)
Letters ==
    {"a", "b", "c", "d", "e", "f", "g", "h", "i", "j", "k", "l", "m",
     "n", "o", "p", "q", "r", "s", "t", "u", "v", "w", "x", "y", "z",
     "A", "B", "C", "D", "E", "F", "G", "H", "I", "J", "K", "L", "M",
     "N", "O", "P", "Q", "R", "S", "T", "U", "V", "W", "X", "Y", "Z"}

\* the class \w on the characters of the inputs
is_word(c) == c \in Letters \/ c \in Digits \/ c = "_"

\* the class [^:\s]
is_value_char(c) == c # ":" /\ ~is_whitespace(c)

\* the last position of the longest run of \w characters that starts at i; i - 1 when
\* there is none
RECURSIVE WordRunEnd(_, _)
WordRunEnd(s, i) ==
    IF i <= Len(s) /\ is_word(s[i]) THEN WordRunEnd(s, i + 1) ELSE i - 1

\* the same for \s
RECURSIVE SpaceRunEnd(_, _)
SpaceRunEnd(s, i) ==
    IF i <= Len(s) /\ is_whitespace(s[i]) THEN SpaceRunEnd(s, i + 1) ELSE i - 1

\* the same for [^:\s]
RECURSIVE ValueRunEnd(_, _)
ValueRunEnd(s, i) ==
    IF i <= Len(s) /\ is_value_char(s[i]) THEN ValueRunEnd(s, i + 1) ELSE i - 1

(***************************************************************************)
(* A match of (\w+):\s*([^:\s]+) that starts at i, as <<key start, key end, *)
(* value start, value end>>, or << >>.  The three repetitions are greedy   *)
(* and giving back what they took never helps: a shorter key is followed   *)
(* by a word character, not ":", and less white space is followed by white *)
(* space, not a value character.                                           *)
(***************************************************************************)
MatchAt(s, i) ==
    LET ke == WordRunEnd(s, i)
        vs == SpaceRunEnd(s, ke + 2) + 1
        ve == ValueRunEnd(s, vs)
    IN  IF ke >= i /\ ke < Len(s) /\ s[ke + 1] = ":" /\ ve >= vs
        THEN <<i, ke, vs, ve>>
        ELSE << >>

(***************************************************************************)
(* Regex::captures_iter: the leftmost match at or after from, then the     *)
(* matches after its end.  Where no match starts at from, none starts      *)
(* inside the run of word characters at from either (it would need the     *)
(* same ":" and value), so the search goes on after that run.              *)
(***************************************************************************)
RECURSIVE captures_iter(_, _)
captures_iter(s, from) ==
    IF from > Len(s) THEN << >>
    ELSE LET m == MatchAt(s, from)
         IN  IF m # << >>
             THEN << <<SubSeq(s, m[1], m[2]), SubSeq(s, m[3], m[4])>> >>
                      \o captures_iter(s, m[4] + 1)
             ELSE LET ke == WordRunEnd(s, from)
                  IN  captures_iter(s, IF ke >= from THEN ke + 1 ELSE from + 1)

\* str::trim_end_matches
RECURSIVE trim_end_matches(_, _)
trim_end_matches(s, pat) ==
    IF pat # << >> /\ Len(s) >= Len(pat) /\ SubSeq(s, Len(s) - Len(pat) + 1, Len(s)) = pat
    THEN trim_end_matches(SubSeq(s, 1, Len(s) - Len(pat)), pat)
    ELSE s

\* keys of the generic schema (the arms of `match key`), as characters
Keys ==
     \* "Signal"
    [Signal |->
        <<"S","i","g","n","a","l">>,
     \* "MCS"
     MCS |->
        <<"M","C","S">>,
     \* "CH"
     CH |->
        <<"C","H">>,
     \* "FlightTime"
     FlightTime |->
        <<"F","l","i","g","h","t","T","i","m","e">>,
     \* "SBat"
     SBat |->
        <<"S","B","a","t">>,
     \* "GBat"
     GBat |->
        <<"G","B","a","t">>,
     \* "Delay"
     Delay |->
        <<"D","e","l","a","y">>,
     \* "Bitrate"
     Bitrate |->
        <<"B","i","t","r","a","t","e">>,
     \* "Distance"
     Distance |->
        <<"D","i","s","t","a","n","c","e">>,
     \* "AirTemp"
     AirTemp |->
        <<"A","i","r","T","e","m","p">>,
     \* "GndTemp"
     GndTemp |->
        <<"G","n","d","T","e","m","p">>,
     \* "STYMode"
     STYMode |->
        <<"S","T","Y","M","o","d","e">>]
\* unit suffixes trimmed from values
Units ==
     \* "V"
    [V |->
        <<"V">>,
     \* "ms"
     ms |->
        <<"m","s">>,
     \* "Mbps"
     Mbps |->
        <<"M","b","p","s">>,
     \* "m"
     m |->
        <<"m">>]

\* the locals of SrtFrameData::from_str before the scan
NoFields ==
    [signal |-> None, channel |-> None, flight_time |-> None, sky_bat |-> None,
     ground_bat |-> None, latency |-> None, bitrate_mbps |-> None, distance |-> None,
     air_temp |-> None, gnd_temp |-> None, sty_mode |-> None]

\* one arm of the match on the key: value.parse().ok() after the unit suffix is trimmed
apply_capture(acc, key, value) ==
    CASE key = Keys.Signal \/ key = Keys.MCS ->
            [acc EXCEPT !.signal = ParseUnsigned(value, U8Max)]
      [] key = Keys.CH -> [acc EXCEPT !.channel = Some(value)]
      [] key = Keys.FlightTime -> [acc EXCEPT !.flight_time = ParseUnsigned(value, U32Max)]
      [] key = Keys.SBat -> [acc EXCEPT !.sky_bat = ParseF32(trim_end_matches(value, Units.V))]
      [] key = Keys.GBat -> [acc EXCEPT !.ground_bat = ParseF32(trim_end_matches(value, Units.V))]
      [] key = Keys.Delay ->
            [acc EXCEPT !.latency = ParseUnsigned(trim_end_matches(value, Units.ms), U32Max)]
      [] key = Keys.Bitrate ->
            [acc EXCEPT !.bitrate_mbps = ParseF32(trim_end_matches(value, Units.Mbps))]
      [] key = Keys.Distance ->
            [acc EXCEPT !.distance = ParseUnsigned(trim_end_matches(value, Units.m), U32Max)]
      [] key = Keys.AirTemp -> [acc EXCEPT !.air_temp = ParseUnsigned(value, U32Max)]
      [] key = Keys.GndTemp -> [acc EXCEPT !.gnd_temp = ParseUnsigned(value, U32Max)]
      [] key = Keys.STYMode -> [acc EXCEPT !.sty_mode = ParseUnsigned(value, U32Max)]
      [] OTHER -> acc

\* the for loop over the captures
RECURSIVE apply_captures(_, _)
apply_captures(acc, caps) ==
    IF caps = << >> THEN acc
    ELSE apply_captures(apply_capture(acc, caps[1][1], caps[1][2]), Tail(caps))

\* Result<T, E>
Ok(v) == <<"Ok", v>>
Err == <<"Err">>
is_ok(r) == r[1] = "Ok"
\* Result::ok
Result_ok(r) == IF is_ok(r) THEN Some(r[2]) ELSE None

\* from_str with a recognized key's unparsable value turned into an error
SrtFrameData_from_str_strict(s) ==
    LET caps == captures_iter(s, 1)
        acc  == apply_captures(NoFields, caps)
        keys == {caps[i][1] : i \in 1..Len(caps)}
    IN  IF \/ Keys.Signal \in keys /\ acc.signal = None
           \/ Keys.Delay \in keys /\ acc.latency = None
           \/ Keys.SBat \in keys /\ acc.sky_bat = None
        THEN Err
        ELSE Ok([signal |-> acc.signal, channel |-> acc.channel,
                 flight_time |-> acc.flight_time, sky_bat |-> acc.sky_bat,
                 ground_bat |-> acc.ground_bat, latency |-> acc.latency,
                 bitrate_mbps |-> acc.bitrate_mbps, distance |-> acc.distance,
                 hz |-> None, sp |-> None, gp |-> None,
                 air_temp |-> acc.air_temp, gnd_temp |-> acc.gnd_temp,
                 sty_mode |-> acc.sty_mode])

\* impl FromStr for SrtFrameData
SrtFrameData_from_str(s) ==
    LET acc == apply_captures(NoFields, captures_iter(s, 1))
    IN  Ok([signal |-> acc.signal, channel |-> acc.channel,
            flight_time |-> acc.flight_time, sky_bat |-> acc.sky_bat,
            ground_bat |-> acc.ground_bat, latency |-> acc.latency,
            bitrate_mbps |-> acc.bitrate_mbps, distance |-> acc.distance,
            hz |-> None, sp |-> None, gp |-> None,
            air_temp |-> acc.air_temp, gnd_temp |-> acc.gnd_temp,
            sty_mode |-> acc.sty_mode])

(***************************************************************************)
(* parse_display.  lits are the literal segments of the format, lits[1]    *)
(* before the first capture and lits[Len(lits)] after the last.  Capture k *)
(* starts at pos and is lazy: it ends before the first occurrence of       *)
(* lits[k + 1] from which the rest of the format matches, the last literal *)
(* ending the line.  The result is the captures, or no match.              *)
(***************************************************************************)
\* the first occurrence of lit in s at or after q, 0 when there is none
RECURSIVE NextOccurrence(_, _, _)
NextOccurrence(s, lit, q) ==
    IF q + Len(lit) - 1 > Len(s) THEN 0
    ELSE LET hi   == IF q + 15 > Len(s) THEN Len(s) ELSE q + 15
             hits == {i \in q..hi : StartsWithAt(s, lit, i)}
         IN  IF hits = {} THEN NextOccurrence(s, lit, hi + 1)
             ELSE CHOOSE i \in hits : \A j \in hits : i <= j

RECURSIVE lazy_captures(_, _, _, _, _)
lazy_captures(s, lits, k, pos, q) ==
    LET lit == lits[k + 1]
        at  == NextOccurrence(s, lit, q)
        nxt == at + Len(lit)
    IN  IF at = 0 THEN [matched |-> FALSE, caps |-> << >>]
        ELSE IF k + 1 = Len(lits)
        THEN IF nxt = Len(s) + 1
             THEN [matched |-> TRUE, caps |-> <<SubSeq(s, pos, at - 1)>>]
             ELSE lazy_captures(s, lits, k, pos, at + 1)
        ELSE LET rest == lazy_captures(s, lits, k + 1, nxt, nxt)
             IN  IF rest.matched
                 THEN [matched |-> TRUE, caps |-> <<SubSeq(s, pos, at - 1)>> \o rest.caps]
                 ELSE lazy_captures(s, lits, k, pos, at + 1)

display_captures(s, lits) ==
    IF ~StartsWithAt(s, lits[1], 1) THEN [matched |-> FALSE, caps |-> << >>]
    ELSE IF Len(lits) = 1 THEN [matched |-> Len(s) = Len(lits[1]), caps |-> << >>]
    ELSE lazy_captures(s, lits, 1, Len(lits[1]) + 1, Len(lits[1]) + 1)

\* FromStr of a field's type
parse_field(ty, s) ==
    CASE ty = "u8" -> ParseUnsigned(s, U8Max)
      [] ty = "u16" -> ParseUnsigned(s, U16Max)
      [] ty = "u32" -> ParseUnsigned(s, U32Max)
      [] ty = "f32" -> ParseF32(s)
      [] ty = "String" -> Some(s)

\* the literal segments of AscentSrtFrameData's display format
AscentLiterals ==
    <<
      <<"S","i","g","n","a","l",":">>,
      <<" ","C","H",":">>,
      <<" ","H","z",":">>,
      <<" ","F","l","i","g","h","t","T","i","m","e",":">>,
      <<" ","S","p","=">>,
      <<" ","G","p","=">>,
      <<" ","S","B","a","t",":">>,
      <<"V"," ","G","B","a","t",":">>,
      <<"V"," ","D","e","l","a","y",":">>,
      <<"m","s"," ","B","i","t","r","a","t","e",":">>,
      <<"M","b","p","s"," ","D","i","s","t","a","n","c","e",":">>,
      <<"m">>
    >>
\* its fields in the order of the format, and their types
AscentFields ==
    <<"signal", "channel", "hz", "flight_time", "sp", "gp", "sky_bat", "ground_bat", "latency",
      "bitrate_mbps", "distance">>
AscentTypes ==
    <<"u8", "String", "u32", "u32", "u8", "u8", "f32", "f32", "u32", "f32", "u32">>

\* the literal segments of SrtDebugFrameData's display format
DebugLiterals ==
    <<
      <<"C","H",":">>,
      <<" ","M","C","S",":">>,
      <<" ","S","P","["," ">>,
      <<" ">>,
      <<" "," ">>,
      <<" ">>,
      <<"]"," ","G","P","["," ">>,
      <<" "," ">>,
      <<" "," ">>,
      <<" "," ">>,
      <<"]"," ","G","T","P",":">>,
      <<" ","G","T","P","0",":">>,
      <<" ","S","T","P",":">>,
      <<" ","S","T","P","0",":">>,
      <<" ","G","S","N","R",":">>,
      <<" ","S","S","N","R",":">>,
      <<" ","G","t","e","m","p",":">>,
      <<" ","S","t","e","m","p",":">>,
      <<" ","D","e","l","a","y",":">>,
      <<"m","s"," ","F","r","a","m","e",":">>,
      <<" "," ","G","e","r","r",":">>,
      <<" ","S","E","r","r",":">>,
      <<" ">>,
      <<","," ","[","i","s","o",":">>,
      <<",","m","o","d","e","=">>,
      <<","," ","e","x","p",":">>,
      <<"]"," ","[","g","a","i","n",":">>,
      <<" ","e","x","p",":">>,
      <<"m","s","]">>
    >>
\* its fields in the order of the format, and their types
DebugFields ==
    <<"channel", "signal", "sp1", "sp2", "sp3", "sp4", "gp1", "gp2", "gp3", "gp4", "gtp",
      "gtp0", "stp", "stp0", "gsnr", "ssnr", "gtemp", "stemp", "latency", "frame", "gerr",
      "serr", "serr_ext", "iso", "iso_mode", "iso_exp", "gain", "gain_exp">>
DebugTypes ==
    <<"u8", "u8", "u16", "u16", "u16", "u16", "u16", "u16", "u16", "u16", "u16", "u16", "u16",
      "u16", "f32", "f32", "f32", "f32", "u32", "u16", "u16", "u16", "u16", "u32", "String",
      "u32", "f32", "f32">>

\* the derived FromStr: the captures of the format, each parsed as its field's type; an
\* error when the line does not match or a capture does not parse.  The value is the
\* function from field name to parsed value.
display_from_str(s, lits, fields, types) ==
    LET m    == display_captures(s, lits)
        vals == [i \in 1..Len(m.caps) |-> parse_field(types[i], m.caps[i])]
    IN  IF ~m.matched \/ \E i \in 1..Len(vals) : vals[i] = None THEN Err
        ELSE Ok([f \in {fields[i] : i \in 1..Len(fields)} |->
                    Unwrap(vals[CHOOSE i \in 1..Len(fields) : fields[i] = f])])

\* #[derive(FromStr)] for AscentSrtFrameData
AscentSrtFrameData_from_str(s) == display_from_str(s, AscentLiterals, AscentFields, AscentTypes)

\* #[derive(FromStr)] for SrtDebugFrameData
SrtDebugFrameData_from_str(s) == display_from_str(s, DebugLiterals, DebugFields, DebugTypes)

\* impl From<AscentSrtFrameData> for SrtFrameData
SrtFrameData_from(a) ==
    [signal |-> Some(a.signal), channel |-> Some(a.channel),
     flight_time |-> Some(a.flight_time), sky_bat |-> Some(a.sky_bat),
     ground_bat |-> Some(a.ground_bat), latency |-> Some(a.latency),
     bitrate_mbps |-> Some(a.bitrate_mbps), distance |-> Some(a.distance),
     hz |-> Some(a.hz), sp |-> Some(a.sp), gp |-> Some(a.gp),
     air_temp |-> None, gnd_temp |-> None, sty_mode |-> None]

(***************************************************************************)
(* The cue closure of SrtFile::open: the debug schema on its own, and for  *)
(* the primary record the Ascent schema, then the generic one.             *)
(***************************************************************************)
\* the three schemas tried in the order debug, Ascent, generic, the first success alone
\* giving a record
cue_records_exclusive(text) ==
    LET debug  == Result_ok(SrtDebugFrameData_from_str(text))
        ascent == Result_ok(AscentSrtFrameData_from_str(text))
    IN  IF IsSome(debug) THEN [data |-> None, debug_data |-> debug]
        ELSE IF IsSome(ascent)
        THEN [data |-> Some(SrtFrameData_from(Unwrap(ascent))), debug_data |-> None]
        ELSE [data |-> Result_ok(SrtFrameData_from_str(text)), debug_data |-> None]

\* the generic schema tried before the Ascent schema
cue_records_generic_first(text) ==
    LET debug_data == Result_ok(SrtDebugFrameData_from_str(text))
        generic    == Result_ok(SrtFrameData_from_str(text))
        ascent     == Result_ok(AscentSrtFrameData_from_str(text))
    IN  [data |-> IF IsSome(generic) THEN generic
                  ELSE IF IsSome(ascent) THEN Some(SrtFrameData_from(Unwrap(ascent)))
                  ELSE None,
         debug_data |-> debug_data]

cue_records(text) ==
    LET debug_data == Result_ok(SrtDebugFrameData_from_str(text))
        ascent     == Result_ok(AscentSrtFrameData_from_str(text))
        data       == IF IsSome(ascent) THEN Some(SrtFrameData_from(Unwrap(ascent)))
                      ELSE Result_ok(SrtFrameData_from_str(text))
    IN  [data |-> data, debug_data |-> debug_data]

(***************************************************************************)
(* Lines.  The lines of the tests of frame.rs, lines written in the two    *)
(* display formats with some fields varied, and lines joined from tokens.  *)
(***************************************************************************)
\* cue texts: the lines of the tests of frame.rs and three degenerate lines
Lines ==
     \* "Signal:4 CH:8 FlightTime:0 SBat:4.7V GBat:7.2V Delay:32ms Bitrate:25Mbps Distance:7m"
    [pre_v31 |->
        <<"S","i","g","n","a","l",":","4"," ","C","H",":","8"," ","F","l","i","g","h","t","T","i",
          "m","e",":","0"," ","S","B","a","t",":","4",".","7","V"," ","G","B","a","t",":","7",".",
          "2","V"," ","D","e","l","a","y",":","3","2","m","s"," ","B","i","t","r","a","t","e",":",
          "2","5","M","b","p","s"," ","D","i","s","t","a","n","c","e",":","7","m">>,
     \* "CH:1 MCS:4 SP[ 45 152  47 149] GP[ 49  48  45  47] GTP:27 GTP0:00 STP:24 STP0:00 GSNR:25.9 SSNR:17.8 Gtemp:50 Stemp:82 Delay:31ms Frame:60  Gerr:0 SErr:0 42, [iso:0,mode=max, exp:0] [gain:0.00 exp:0.000ms]"
     debug |->
        <<"C","H",":","1"," ","M","C","S",":","4"," ","S","P","["," ","4","5"," ","1","5","2"," ",
          " ","4","7"," ","1","4","9","]"," ","G","P","["," ","4","9"," "," ","4","8"," "," ","4",
          "5"," "," ","4","7","]"," ","G","T","P",":","2","7"," ","G","T","P","0",":","0","0"," ",
          "S","T","P",":","2","4"," ","S","T","P","0",":","0","0"," ","G","S","N","R",":","2","5",
          ".","9"," ","S","S","N","R",":","1","7",".","8"," ","G","t","e","m","p",":","5","0"," ",
          "S","t","e","m","p",":","8","2"," ","D","e","l","a","y",":","3","1","m","s"," ","F","r",
          "a","m","e",":","6","0"," "," ","G","e","r","r",":","0"," ","S","E","r","r",":","0"," ",
          "4","2",","," ","[","i","s","o",":","0",",","m","o","d","e","=","m","a","x",","," ","e",
          "x","p",":","0","]"," ","[","g","a","i","n",":","0",".","0","0"," ","e","x","p",":","0",
          ".","0","0","0","m","s","]">>,
     \* "Signal:4 CH:AUTO Hz:5805000 FlightTime:0 Sp=19 Gp=17 SBat:5.0V GBat:11.6V Delay:37ms Bitrate:25.0Mbps Distance:0m"
     ascent |->
        <<"S","i","g","n","a","l",":","4"," ","C","H",":","A","U","T","O"," ","H","z",":","5","8",
          "0","5","0","0","0"," ","F","l","i","g","h","t","T","i","m","e",":","0"," ","S","p","=",
          "1","9"," ","G","p","=","1","7"," ","S","B","a","t",":","5",".","0","V"," ","G","B","a",
          "t",":","1","1",".","6","V"," ","D","e","l","a","y",":","3","7","m","s"," ","B","i","t",
          "r","a","t","e",":","2","5",".","0","M","b","p","s"," ","D","i","s","t","a","n","c","e",
          ":","0","m">>,
     \* "Signal:4 CH: 3 FlightTime:   0 SBat:7.11 GBat:7.54 Bitrate: 4Mbps Distance:     0m STYMode:1 AirTemp: 49 GndTemp: 34"
     artlynk |->
        <<"S","i","g","n","a","l",":","4"," ","C","H",":"," ","3"," ","F","l","i","g","h","t","T",
          "i","m","e",":"," "," "," ","0"," ","S","B","a","t",":","7",".","1","1"," ","G","B","a",
          "t",":","7",".","5","4"," ","B","i","t","r","a","t","e",":"," ","4","M","b","p","s"," ",
          "D","i","s","t","a","n","c","e",":"," "," "," "," "," ","0","m"," ","S","T","Y","M","o",
          "d","e",":","1"," ","A","i","r","T","e","m","p",":"," ","4","9"," ","G","n","d","T","e",
          "m","p",":"," ","3","4">>,
     \* ""
     empty |->
        << >>,
     \* "no telemetry here"
     words |->
        <<"n","o"," ","t","e","l","e","m","e","t","r","y"," ","h","e","r","e">>,
     \* "CH: Signal:4"
     dangling |->
        <<"C","H",":"," ","S","i","g","n","a","l",":","4">>]

TestLines ==
    {Lines.pre_v31, Lines.debug, Lines.ascent, Lines.artlynk, Lines.empty, Lines.words, Lines.dangling}

\* Display of a parse_display format: the literals with the values between them
RECURSIVE display(_, _)
display(lits, vals) ==
    IF vals = << >> THEN lits[1]
    ELSE lits[1] \o vals[1] \o display(Tail(lits), Tail(vals))

AscentLines ==
    {display(AscentLiterals,
             <<sig, ch, <<"5","8","0","5","0","0","0">>, <<"0">>, <<"1","9">>, <<"1","7">>, <<"5",".","0">>, <<"1","1",".","6">>,
               <<"3","7">>, <<"2","5",".","0">>, dist>>) \o tail :
        sig \in {<<"4">>, <<"3","0","0">>},
        ch \in {<<"A","U","T","O">>, <<"8">>},
        dist \in {<<"0">>, <<"-","1">>},
        tail \in {<< >>, <<" ">>}}

DebugLines ==
    {display(DebugLiterals,
             <<ch, mcs,
               <<"4","5">>, <<"1","5","2">>, <<"4","7">>, <<"1","4","9">>,
               <<"4","9">>, <<"4","8">>, <<"4","5">>, <<"4","7">>,
               <<"2","7">>, <<"0","0">>, <<"2","4">>, <<"0","0">>,
               <<"2","5",".","9">>, <<"1","7",".","8">>, <<"5","0">>, <<"8","2">>,
               <<"3","1">>, <<"6","0">>, <<"0">>, <<"0">>,
               <<"4","2">>, <<"0">>, <<"m","a","x">>, <<"0">>,
               <<"0",".","0","0">>, <<"0",".","0","0","0">>>>) :
        ch \in {<<"1">>, <<"A","U","T","O">>},
        mcs \in {<<"4">>, <<"2","5","6">>}}

FixedLines == TestLines \cup AscentLines \cup DebugLines

\* the tokens lines are joined from: a key, ":" or "=", white space, a value
TokenIds ==
    {"signal", "signal_bad", "signal_big", "mcs", "ch", "flight",
     "sbat", "sbat_plain", "gbat_bad", "delay", "delay_bad", "bitrate",
     "distance", "airtemp", "foo", "hz", "sp"}

TokenText(id) ==
    CASE id = "signal" -> <<"S","i","g","n","a","l",":","4">>
      [] id = "signal_bad" -> <<"S","i","g","n","a","l",":","x">>
      [] id = "signal_big" -> <<"S","i","g","n","a","l",":","3","0","0">>
      [] id = "mcs" -> <<"M","C","S",":","2">>
      [] id = "ch" -> <<"C","H",":"," ","3">>
      [] id = "flight" -> <<"F","l","i","g","h","t","T","i","m","e",":"," "," "," ","0">>
      [] id = "sbat" -> <<"S","B","a","t",":","4",".","7","V">>
      [] id = "sbat_plain" -> <<"S","B","a","t",":","7",".","1","1">>
      [] id = "gbat_bad" -> <<"G","B","a","t",":","V">>
      [] id = "delay" -> <<"D","e","l","a","y",":","3","2","m","s">>
      [] id = "delay_bad" -> <<"D","e","l","a","y",":","m","s">>
      [] id = "bitrate" -> <<"B","i","t","r","a","t","e",":"," ","4","M","b","p","s">>
      [] id = "distance" -> <<"D","i","s","t","a","n","c","e",":"," "," "," "," "," ","7","m">>
      [] id = "airtemp" -> <<"A","i","r","T","e","m","p",":"," ","4","9">>
      [] id = "foo" -> <<"F","o","o",":","9">>
      [] id = "hz" -> <<"H","z",":","5","8","0","5","0","0","0">>
      [] id = "sp" -> <<"S","p","=","1","9">>

\* the tokens joined by single spaces
RECURSIVE Join(_)
Join(ts) ==
    IF ts = << >> THEN << >>
    ELSE IF Len(ts) = 1 THEN TokenText(ts[1])
    ELSE TokenText(ts[1]) \o <<" ">> \o Join(Tail(ts))

\* what a token sets: the field of its key ("none" for a key that is not recognized or
\* not followed by ":") and the value its text denotes, absent when it denotes none
TokenField(id) ==
    CASE id = "signal" -> "signal"
      [] id = "signal_bad" -> "signal"
      [] id = "signal_big" -> "signal"
      [] id = "mcs" -> "signal"
      [] id = "ch" -> "channel"
      [] id = "flight" -> "flight_time"
      [] id = "sbat" -> "sky_bat"
      [] id = "sbat_plain" -> "sky_bat"
      [] id = "gbat_bad" -> "ground_bat"
      [] id = "delay" -> "latency"
      [] id = "delay_bad" -> "latency"
      [] id = "bitrate" -> "bitrate_mbps"
      [] id = "distance" -> "distance"
      [] id = "airtemp" -> "air_temp"
      [] id = "foo" -> "none"
      [] id = "hz" -> "none"
      [] id = "sp" -> "none"

TokenExpect(id) ==
    CASE id = "signal" -> Some(4)
      [] id = "signal_bad" -> None
      [] id = "signal_big" -> None
      [] id = "mcs" -> Some(2)
      [] id = "ch" -> Some(<<"3">>)
      [] id = "flight" -> Some(0)
      [] id = "sbat" -> Some(<<1, 4, <<"7">>>>)
      [] id = "sbat_plain" -> Some(<<1, 7, <<"1", "1">>>>)
      [] id = "gbat_bad" -> None
      [] id = "delay" -> Some(32)
      [] id = "delay_bad" -> None
      [] id = "bitrate" -> Some(<<1, 4, << >>>>)
      [] id = "distance" -> Some(7)
      [] id = "airtemp" -> Some(49)
      [] OTHER -> None

FieldNames ==
    {"signal", "channel", "flight_time", "sky_bat", "ground_bat", "latency", "bitrate_mbps",
     "distance", "hz", "sp", "gp", "air_temp", "gnd_temp", "sty_mode"}

\* the record a line of tokens denotes: each field as its last token gives it
ExpectedOfTokens(ts) ==
    [f \in FieldNames |->
        LET at == {i \in 1..Len(ts) : TokenField(ts[i]) = f}
        IN  IF at = {} THEN None
            ELSE TokenExpect(ts[CHOOSE i \in at : \A j \in at : j <= i])]

(***************************************************************************)
(* SrtFile::open (srt/srt_file.rs).  A cue is its text and its start and   *)
(* end time in milliseconds, as srtparse::from_file delivers them.         *)
(***************************************************************************)
RECURSIVE Pow2(_)
Pow2(n) == IF n = 0 THEN 1 ELSE 2 * Pow2(n - 1)

\* the binary exponent k of ms / 1000, for 0 < ms: 2^k <= ms / 1000 < 2^(k + 1)
BinaryExponent(ms) ==
    CHOOSE k \in -10..10 :
        IF k >= 0 THEN 1000 * Pow2(k) <= ms /\ ms < 2000 * Pow2(k)
        ELSE 1000 <= ms * Pow2(-k) /\ ms * Pow2(-k) < 2000

(***************************************************************************)
(* Duration::as_secs_f32 of a duration of ms milliseconds: the f32 nearest *)
(* to ms / 1000, as <<significand, exponent>> with a 24-bit significand    *)
(* (<<0, 0>> for zero).  ms * 2^(20 - k) / 125 is ms / 1000 * 2^(23 - k);  *)
(* 125 is odd, so no quotient lies half way between two significands.  The *)
(* code adds the whole seconds to the rounded fraction, which is this      *)
(* value for the times of the inputs: below one second, or whole seconds.  *)
(***************************************************************************)
as_secs_f32(ms) ==
    IF ms = 0 THEN <<0, 0>>
    ELSE LET k == BinaryExponent(ms)
             m == (ms * Pow2(20 - k) + 62) \div 125
         IN  IF m = Pow2(24) THEN <<Pow2(23), k - 22>> ELSE <<m, k - 23>>

\* the texts and times of the cues of the files
CueTexts == {Lines.pre_v31, Lines.debug, Lines.ascent, Lines.artlynk, Lines.words}
CueTimes == {<<0, 33>>, <<33, 66>>, <<1000, 2000>>}
Cues == {[text |-> t, start_time |-> d[1], end_time |-> d[2]] : t \in CueTexts, d \in CueTimes}

NoFlags ==
    [has_signal |-> FALSE, has_channel |-> FALSE, has_flight_time |-> FALSE, has_sky_bat |-> FALSE,
     has_ground_bat |-> FALSE, has_latency |-> FALSE, has_bitrate |-> FALSE, has_distance |-> FALSE,
     has_hz |-> FALSE, has_sp |-> FALSE, has_gp |-> FALSE, has_air_temp |-> FALSE,
     has_gnd_temp |-> FALSE, has_sty_mode |-> FALSE, has_debug |-> FALSE]

\* the closure's updates with each flag assigned from the cue instead of or-ed into it
update_flags_assigned(fl, r) ==
    LET has == IsSome(r.data)
        d   == Unwrap(r.data)
    IN  [has_signal |-> has /\ IsSome(d.signal),
         has_channel |-> has /\ IsSome(d.channel),
         has_flight_time |-> has /\ IsSome(d.flight_time),
         has_sky_bat |-> has /\ IsSome(d.sky_bat),
         has_ground_bat |-> has /\ IsSome(d.ground_bat),
         has_latency |-> has /\ IsSome(d.latency),
         has_bitrate |-> has /\ IsSome(d.bitrate_mbps),
         has_distance |-> has /\ IsSome(d.distance),
         has_hz |-> has /\ IsSome(d.hz),
         has_sp |-> has /\ IsSome(d.sp),
         has_gp |-> has /\ IsSome(d.gp),
         has_air_temp |-> has /\ IsSome(d.air_temp),
         has_gnd_temp |-> has /\ IsSome(d.gnd_temp),
         has_sty_mode |-> has /\ IsSome(d.sty_mode),
         has_debug |-> fl.has_debug \/ IsSome(r.debug_data)]

\* the closure's updates of the flags for one cue
update_flags(fl, r) ==
    LET has == IsSome(r.data)
        d   == Unwrap(r.data)
    IN  [has_signal |-> fl.has_signal \/ (has /\ IsSome(d.signal)),
         has_channel |-> fl.has_channel \/ (has /\ IsSome(d.channel)),
         has_flight_time |-> fl.has_flight_time \/ (has /\ IsSome(d.flight_time)),
         has_sky_bat |-> fl.has_sky_bat \/ (has /\ IsSome(d.sky_bat)),
         has_ground_bat |-> fl.has_ground_bat \/ (has /\ IsSome(d.ground_bat)),
         has_latency |-> fl.has_latency \/ (has /\ IsSome(d.latency)),
         has_bitrate |-> fl.has_bitrate \/ (has /\ IsSome(d.bitrate_mbps)),
         has_distance |-> fl.has_distance \/ (has /\ IsSome(d.distance)),
         has_hz |-> fl.has_hz \/ (has /\ IsSome(d.hz)),
         has_sp |-> fl.has_sp \/ (has /\ IsSome(d.sp)),
         has_gp |-> fl.has_gp \/ (has /\ IsSome(d.gp)),
         has_air_temp |-> fl.has_air_temp \/ (has /\ IsSome(d.air_temp)),
         has_gnd_temp |-> fl.has_gnd_temp \/ (has /\ IsSome(d.gnd_temp)),
         has_sty_mode |-> fl.has_sty_mode \/ (has /\ IsSome(d.sty_mode)),
         has_debug |-> fl.has_debug \/ IsSome(r.debug_data)]

\* the closure's frame for one cue, r the records of its text
cue_frame(cue, r) ==
    [start_time_secs |-> as_secs_f32(cue.start_time),
     end_time_secs |-> as_secs_f32(cue.end_time),
     data |-> r.data,
     debug_data |-> r.debug_data]

(***************************************************************************)
(* Embedded-OSD extraction (osd/artlynk.rs).  Bytes are numbers 0..255.    *)
(***************************************************************************)
GRID_WIDTH == 53
GRID_HEIGHT == 20

\* x & y on unsigned integers
RECURSIVE BitAnd(_, _)
BitAnd(x, y) ==
    IF x = 0 \/ y = 0 THEN 0
    ELSE (x % 2) * (y % 2) + 2 * BitAnd(x \div 2, y \div 2)

\* x | y on unsigned integers
RECURSIVE BitOr(_, _)
BitOr(x, y) ==
    IF x = 0 THEN y
    ELSE IF y = 0 THEN x
    ELSE (IF x % 2 = 1 \/ y % 2 = 1 THEN 1 ELSE 0) + 2 * BitOr(x \div 2, y \div 2)

\* x << n on u16
Shl16(x, n) == (x * 2^n) % 65536

\* u8::saturating_add
saturating_add(a, b) == IF a + b > 255 THEN 255 ELSE a + b

\* usize::saturating_sub
saturating_sub(a, b) == IF a < b THEN 0 ELSE a - b

\* the character index with all eight bits of the attribute byte shifted in
character_all_bits(attribute, glyph_byte) ==
    BitOr(Shl16(attribute, 8), glyph_byte)

\* ((attribute as u16 & 0x03) << 8) | glyph_byte
character(attribute, glyph_byte) ==
    BitOr(Shl16(BitAnd(attribute, 3), 8), glyph_byte)

\* str::lines: the lines of s without their line ends
RECURSIVE lines(_)
lines(s) ==
    IF s = << >> THEN << >>
    ELSE LET nl == find(s, <<"\n">>)
             strip_cr(l) == IF l # << >> /\ l[Len(l)] = "\r" THEN SubSeq(l, 1, Len(l) - 1) ELSE l
         IN  IF nl = 0 THEN <<s>>
             ELSE <<strip_cr(SubSeq(s, 1, nl - 1))>> \o lines(From(s, nl + 1))

\* str::trim
RECURSIVE trim(_)
trim(s) ==
    IF s # << >> /\ is_whitespace(s[1]) THEN trim(Tail(s))
    ELSE IF s # << >> /\ is_whitespace(s[Len(s)]) THEN trim(SubSeq(s, 1, Len(s) - 1))
    ELSE s

\* char::is_ascii_hexdigit
is_ascii_hexdigit(c) ==
    c \in Digits \cup {"a", "b", "c", "d", "e", "f", "A", "B", "C", "D", "E", "F"}

HexVal(c) ==
    CASE c \in Digits -> DigitVal(c)
      [] c \in {"a", "A"} -> 10 [] c \in {"b", "B"} -> 11 [] c \in {"c", "C"} -> 12
      [] c \in {"d", "D"} -> 13 [] c \in {"e", "E"} -> 14 [] c \in {"f", "F"} -> 15

\* hex::decode of a string of hex digits: an error on an odd number of them
hex_decode(s) ==
    IF Len(s) % 2 # 0 THEN None
    ELSE Some([k \in 1..(Len(s) \div 2) |-> 16 * HexVal(s[2 * k - 1]) + HexVal(s[2 * k])])

\* the loop over the lines of the payload text: the part after an address prefix, or the line
RECURSIVE clean_lines(_)
clean_lines(ls) ==
    IF ls = << >> THEN << >>
    ELSE LET l   == trim(ls[1])
             pos == find(l, <<":", " ">>)
         IN  (IF pos # 0 THEN From(l, pos + 2) ELSE l) \o clean_lines(Tail(ls))

\* the loop that drops every third byte; p is i + 1
RECURSIVE remove_padding(_, _)
remove_padding(raw_bytes, p) ==
    IF p > Len(raw_bytes) THEN << >>
    ELSE (IF p % 3 # 0 THEN <<raw_bytes[p]>> ELSE << >>) \o remove_padding(raw_bytes, p + 1)

\* data[offset], offsets counted from 0
At(data, offset) == data[offset + 1]

\* the glyph loop with every glyph of a command at the command's column
RECURSIVE glyph_loop_fixed_col(_, _, _, _, _)
glyph_loop_fixed_col(data, offset, i, num_glyphs, cmd) ==
    IF i >= num_glyphs \/ offset >= Len(data) THEN << >>
    ELSE <<[row |-> cmd.row,
            col |-> cmd.col,
            idx |-> character(cmd.attribute, At(data, offset))]>>
         \o glyph_loop_fixed_col(data, offset + 1, i + 1, num_glyphs, cmd)

\* the loop over the glyph bytes of one command, from glyph i at offset
RECURSIVE glyph_loop(_, _, _, _, _)
glyph_loop(data, offset, i, num_glyphs, cmd) ==
    IF i >= num_glyphs \/ offset >= Len(data) THEN << >>
    ELSE <<[row |-> cmd.row,
            col |-> saturating_add(cmd.col, i % 256),
            idx |-> character(cmd.attribute, At(data, offset))]>>
         \o glyph_loop(data, offset + 1, i + 1, num_glyphs, cmd)

\* the loop over the commands, n of them left, the next at offset
RECURSIVE command_loop(_, _, _)
command_loop(data, n, offset) ==
    IF n = 0 \/ offset >= Len(data) THEN << >>
    ELSE IF offset + 6 > Len(data) THEN << >>
    ELSE LET cmd_payload_len == At(data, offset)
             cmd == [row |-> At(data, offset + 3), col |-> At(data, offset + 4),
                     attribute |-> At(data, offset + 5)]
             num_glyphs == saturating_sub(cmd_payload_len, 4)
             run == glyph_loop(data, offset + 6, 0, num_glyphs, cmd)
         IN  run \o command_loop(data, n - 1, offset + 6 + Len(run))

\* parse_msp_payload taking any sequence with a command count for long enough
parse_msp_payload_short_ok(hex_string) ==
    LET cleaned   == clean_lines(lines(hex_string))
        clean_hex == SelectSeq(cleaned, is_ascii_hexdigit)
        raw_bytes == hex_decode(clean_hex)
    IN  IF ~IsSome(raw_bytes) THEN None
        ELSE LET data == remove_padding(Unwrap(raw_bytes), 1)
             IN  IF Len(data) < 1 THEN None
                 ELSE Some(command_loop(data, At(data, 0), 9))

\* parse_msp_payload: Some(the glyphs of the payload as (row, col, idx)) or None
parse_msp_payload(hex_string) ==
    LET cleaned   == clean_lines(lines(hex_string))
        clean_hex == SelectSeq(cleaned, is_ascii_hexdigit)
        raw_bytes == hex_decode(clean_hex)
    IN  IF ~IsSome(raw_bytes) THEN None
        ELSE LET data == remove_padding(Unwrap(raw_bytes), 1)
             IN  IF Len(data) < 9 THEN None
                 ELSE Some(command_loop(data, At(data, 0), 9))

\* the offsets of data the command loop reads, n commands left, the next at offset
RECURSIVE command_reads(_, _, _)
command_reads(data, n, offset) ==
    IF n = 0 \/ offset >= Len(data) THEN {}
    ELSE IF offset + 6 > Len(data) THEN {offset}
    ELSE LET num_glyphs == saturating_sub(At(data, offset), 4)
             run == IF offset + 6 + num_glyphs <= Len(data) THEN num_glyphs
                    ELSE Len(data) - (offset + 6)
         IN  {offset, offset + 3, offset + 4, offset + 5}
             \cup {offset + 6 + i : i \in 0..(run - 1)}
             \cup command_reads(data, n - 1, offset + 6 + run)

\* the offsets of the de-interleaved data parse_msp_payload reads
parse_msp_payload_reads(hex_string) ==
    LET raw_bytes == hex_decode(SelectSeq(clean_lines(lines(hex_string)), is_ascii_hexdigit))
    IN  IF ~IsSome(raw_bytes) THEN {}
        ELSE LET data == remove_padding(Unwrap(raw_bytes), 1)
             IN  IF Len(data) < 9 THEN {}
                 ELSE {0} \cup command_reads(data, At(data, 0), 9)

\* the filter of the glyphs of a payload
retained(g) ==
    g.col < GRID_WIDTH /\ g.row < GRID_HEIGHT /\ g.idx # 0 /\ g.idx # 32

\* a Glyph of a retained (row, col, idx)
Glyph(g) == [index |-> g.idx, grid_position |-> [x |-> g.col, y |-> g.row]]

\* (pts * 1000.0) as u32 of a presentation time given in microseconds.  The f64 product of
\* the times of the inputs is exact and below 2^32, and the cast truncates.
ts_ms(pts) == pts \div 1000

\* payload texts as the metadata scan captures them: hex digits and white space
PayloadTexts ==
     \* one command at row 1, column 52, attribute 0x02, glyph bytes 0x05 0x07
     \* 01 00 ff 00 00 ff 00 00 ff 00 00 ff 00 06 ff 00 00 ff 01 34 ff 02 05 ff 07
    [edge |->
        <<"0","1"," ","0","0"," ","f","f"," ","0","0"," ","0","0"," ","f","f"," ","0","0"," ",
          "0","0"," ","f","f"," ","0","0"," ","0","0"," ","f","f"," ","0","0"," ","0","6"," ",
          "f","f"," ","0","0"," ","0","0"," ","f","f"," ","0","1"," ","3","4"," ","f","f"," ",
          "0","2"," ","0","5"," ","f","f"," ","0","7">>,
     \* one command at row 0, column 0, attribute 0x00, glyph bytes 0x00 0x20
     \* 01 00 ff 00 00 ff 00 00 ff 00 00 ff 00 06 ff 00 00 ff 00 00 ff 00 00 ff 20
     blank |->
        <<"0","1"," ","0","0"," ","f","f"," ","0","0"," ","0","0"," ","f","f"," ","0","0"," ",
          "0","0"," ","f","f"," ","0","0"," ","0","0"," ","f","f"," ","0","0"," ","0","6"," ",
          "f","f"," ","0","0"," ","0","0"," ","f","f"," ","0","0"," ","0","0"," ","f","f"," ",
          "0","0"," ","0","0"," ","f","f"," ","2","0">>,
     \* two commands: row 19, column 0, attribute 0xfe, glyph byte 0x20; row 20, column 3, attribute 0x01, glyph byte 0x41
     \* 02 00 ff 00 00 ff 00 00 ff 00 00 ff 00 05 ff 00 00 ff 13 00 ff fe 20 ff 05 00 ff 00 14 ff 03 01 ff 41
     high |->
        <<"0","2"," ","0","0"," ","f","f"," ","0","0"," ","0","0"," ","f","f"," ","0","0"," ",
          "0","0"," ","f","f"," ","0","0"," ","0","0"," ","f","f"," ","0","0"," ","0","5"," ",
          "f","f"," ","0","0"," ","0","0"," ","f","f"," ","1","3"," ","0","0"," ","f","f"," ",
          "f","e"," ","2","0"," ","f","f"," ","0","5"," ","0","0"," ","f","f"," ","0","0"," ",
          "1","4"," ","f","f"," ","0","3"," ","0","1"," ","f","f"," ","4","1">>,
     \* one command at row 2, column 3, attribute 0x00, glyph byte 0x41, on lines of eight bytes
     \* 01 00 ff 00 00 ff 00 00\nff 00 00 ff 00 05 ff 00\n00 ff 02 03 ff 00 41 ff
     plain |->
        <<"0","1"," ","0","0"," ","f","f"," ","0","0"," ","0","0"," ","f","f"," ","0","0"," ",
          "0","0","\n","f","f"," ","0","0"," ","0","0"," ","f","f"," ","0","0"," ","0","5"," ",
          "f","f"," ","0","0","\n","0","0"," ","f","f"," ","0","2"," ","0","3"," ","f","f"," ",
          "0","0"," ","4","1"," ","f","f">>,
     \* the payload plain on one line with its last digit missing
     \* 01 00 ff 00 00 ff 00 00 ff 00 00 ff 00 05 ff 00 00 ff 02 03 ff 00 41 f
     odd |->
        <<"0","1"," ","0","0"," ","f","f"," ","0","0"," ","0","0"," ","f","f"," ","0","0"," ",
          "0","0"," ","f","f"," ","0","0"," ","0","0"," ","f","f"," ","0","0"," ","0","5"," ",
          "f","f"," ","0","0"," ","0","0"," ","f","f"," ","0","2"," ","0","3"," ","f","f"," ",
          "0","0"," ","4","1"," ","f">>,
     \* eight bytes after the padding is removed
     \* 01 00 ff 00 00 ff 00 00 ff 00 00 ff
     short |->
        <<"0","1"," ","0","0"," ","f","f"," ","0","0"," ","0","0"," ","f","f"," ","0","0"," ",
          "0","0"," ","f","f"," ","0","0"," ","0","0"," ","f","f">>]

\* str::to_lowercase on ASCII
UpperCase == <<"A","B","C","D","E","F","G","H","I","J","K","L","M","N","O","P","Q","R","S","T",
               "U","V","W","X","Y","Z">>
LowerCase == <<"a","b","c","d","e","f","g","h","i","j","k","l","m","n","o","p","q","r","s","t",
               "u","v","w","x","y","z">>
to_lowercase(s) ==
    [k \in 1..Len(s) |->
        IF \E i \in 1..26 : UpperCase[i] = s[k]
        THEN LowerCase[CHOOSE i \in 1..26 : UpperCase[i] = s[k]]
        ELSE s[k]]

\* filename.contains("ascent") || filename.contains("avatar")
skip_by_name(file_name) ==
    LET filename == to_lowercase(file_name)
    IN  \/ contains(filename, <<"a","s","c","e","n","t">>)
        \/ contains(filename, <<"a","v","a","t","a","r">>)

\* Duration::from_secs(2), in microseconds
QuickScanMicros == 2000000

\* extract_sei_data on a video v: the entries that ffmpeg reports, those before
\* max_duration when it is given; none when ffmpeg cannot be run
extract_sei_data(v, max_duration, run_ok) ==
    IF ~run_ok THEN << >>
    ELSE IF IsSome(max_duration)
         THEN SelectSeq(v, LAMBDA en : en.pts < Unwrap(max_duration))
         ELSE v

\* where the call goes after the quick scan, going on to the full scan in any case
after_quick_scan_always_full(qe) == "full"

\* where the call goes after the quick scan: the return of Ok(None), or the full scan
after_quick_scan(qe) == IF qe = << >> THEN "returned" ELSE "full"

\* the body of the loop over the entries with the filter left out
frame_of_entry_unfiltered(en) ==
    LET glyphs_raw == parse_msp_payload(en.hex)
    IN  IF ~IsSome(glyphs_raw) THEN None
        ELSE LET glyphs == [k \in 1..Len(Unwrap(glyphs_raw)) |-> Glyph(Unwrap(glyphs_raw)[k])]
             IN  IF glyphs = << >> THEN None
                 ELSE Some([time_millis |-> ts_ms(en.pts), glyphs |-> glyphs])

\* the body of the loop over the entries with a frame pushed for every payload that decodes
frame_of_entry_always(en) ==
    LET glyphs_raw == parse_msp_payload(en.hex)
    IN  IF ~IsSome(glyphs_raw) THEN None
        ELSE LET kept   == SelectSeq(Unwrap(glyphs_raw), retained)
                 glyphs == [k \in 1..Len(kept) |-> Glyph(kept[k])]
             IN  Some([time_millis |-> ts_ms(en.pts), glyphs |-> glyphs])

\* the body of the loop over the entries: the frame pushed for the entry, if any
frame_of_entry(en) ==
    LET glyphs_raw == parse_msp_payload(en.hex)
    IN  IF ~IsSome(glyphs_raw) THEN None
        ELSE LET kept   == SelectSeq(Unwrap(glyphs_raw), retained)
                 glyphs == [k \in 1..Len(kept) |-> Glyph(kept[k])]
             IN  IF glyphs = << >> THEN None
                 ELSE Some([time_millis |-> ts_ms(en.pts), glyphs |-> glyphs])

\* the OsdFile of the frames: frame_count, the frames, and the duration as the time of the
\* last frame in ms and the frame interval as a quotient, wrapped telling that the u32
\* subtraction of its dividend wrapped around (the dividend is then diff + 2^32)
osd_file(fs, wrapped) ==
    [frame_count |-> Len(fs),
     duration |-> [millis |-> fs[Len(fs)].time_millis,
                   interval |-> IF Len(fs) > 1
                                THEN <<fs[Len(fs)].time_millis - fs[1].time_millis, Len(fs) - 1>>
                                ELSE <<33, 1>>,
                   wrapped |-> wrapped],
     frames |-> fs]

\* file names, presentation times in microseconds, entries and videos of the calls
FileNames ==
    {<<"f","l","i","g","h","t","0","0","0","1",".","m","p","4">>,   \* "flight0001.mp4"
     <<"A","s","c","e","n","t","_","0","1",".","m","p","4">>,       \* "Ascent_01.mp4"
     <<"A","V","A","T","A","R",".","M","P","4">>}                   \* "AVATAR.MP4"
PtsValues == {33000, 33400, 66000, 2500000}
Entries == {[pts |-> p, hex |-> PayloadTexts[n]] : p \in PtsValues, n \in DOMAIN PayloadTexts}

(***************************************************************************)
(* The glyph compositor (overlay/osd.rs).                                  *)
(***************************************************************************)
\* (width as f32 / height as f32) < 1.5.  Both conversions and the comparison are exact
\* for the sizes of the inputs (below 2^23); a height of 0 gives inf or NaN, neither
\* below 1.5.
is_4_3(w, h) == 2 * w < 3 * h

\* get_character_size with the two arms of height 1440 exchanged
get_character_size_swapped(w, h) ==
    CASE h = 540 -> "Race"
      [] h = 720 -> "Small"
      [] h = 1080 -> IF is_4_3(w, h) THEN "Small" ELSE "Large"
      [] h = 1440 -> IF is_4_3(w, h) THEN "XLarge" ELSE "Large"
      [] h = 2160 -> "Ultra"
      [] OTHER -> "Large"

\* get_character_size: the CharacterSize by its name
get_character_size(w, h) ==
    CASE h = 540 -> "Race"
      [] h = 720 -> "Small"
      [] h = 1080 -> IF is_4_3(w, h) THEN "Small" ELSE "Large"
      [] h = 1440 -> IF is_4_3(w, h) THEN "Large" ELSE "XLarge"
      [] h = 2160 -> "Ultra"
      [] OTHER -> "Large"

\* the widths and heights of the calls
Widths == {720, 960, 1280, 1440, 1620, 1920, 2160, 2560, 2880, 3840}
Heights == {480, 540, 720, 1080, 1200, 1440, 2160}

\* OsdOptions::get_mask: the grid position is in the mask set
get_mask(mask, grid_position) == grid_position \in mask

\* the character indices the font has
FontCharacters == {65}

\* FontFile::get_character
get_character(index) == IF index \in FontCharacters THEN Some("glyph") ELSE None

\* get_scaled_glyph: the image of the character at the scaled size, if the font has it
get_scaled_glyph(index) == get_character(index)

\* the test that skips a glyph, without the mask
skipped_by_index_only(ch, mask) == ch.index = 0

\* character.index == 0 || osd_options.get_mask(&character.grid_position)
skipped(ch, mask) == ch.index = 0 \/ get_mask(mask, ch.grid_position)

\* a font fetch, a cache insertion or a composite made for glyph k of the frame
Op(kind, k, ch, image) ==
    [op |-> kind, glyph |-> k, index |-> ch.index, at |-> ch.grid_position, image |-> image]

\* the loop of overlay_osd from glyph k: what it does in order
RECURSIVE overlay_osd(_, _, _)
overlay_osd(glyphs, mask, k) ==
    IF k > Len(glyphs) THEN << >>
    ELSE LET ch == glyphs[k]
             scaled_image == get_scaled_glyph(ch.index)
         IN  (IF skipped(ch, mask) THEN << >>
              ELSE <<Op("fetch", k, ch, scaled_image)>>
                   \o (IF IsSome(scaled_image)
                       THEN <<Op("overlay", k, ch, Unwrap(scaled_image))>>
                       ELSE << >>))
             \o overlay_osd(glyphs, mask, k + 1)

\* a cache that files every new index under the image it got first
or_insert_first_image(cache, index, image) ==
    IF index \in DOMAIN cache THEN cache
    ELSE [i \in DOMAIN cache \cup {index} |->
             IF i # index THEN cache[i]
             ELSE IF DOMAIN cache = {} THEN image
             ELSE cache[CHOOSE c \in DOMAIN cache : TRUE]]

\* HashMap::entry(index).or_insert_with: the cache with the index in it
or_insert(cache, index, image) ==
    IF index \in DOMAIN cache THEN cache
    ELSE [i \in DOMAIN cache \cup {index} |-> IF i = index THEN image ELSE cache[i]]

\* the loop of overlay_osd_cached with a cache that forgets what the call put in it
RECURSIVE overlay_osd_cached_forgetful(_, _, _, _)
overlay_osd_cached_forgetful(glyphs, mask, k, cache) ==
    IF k > Len(glyphs) THEN [ops |-> << >>, cache |-> cache]
    ELSE LET ch == glyphs[k]
         IN  IF skipped(ch, mask) THEN overlay_osd_cached_forgetful(glyphs, mask, k + 1, cache)
             ELSE LET hit     == ch.index \in DOMAIN cache
                      fetched == get_scaled_glyph(ch.index)
                      made    == IF IsSome(fetched) THEN Unwrap(fetched) ELSE "blank"
                      cache2  == or_insert(cache, ch.index, made)
                      rest    == overlay_osd_cached_forgetful(glyphs, mask, k + 1, cache2)
                  IN  [ops |-> (IF hit THEN << >>
                                ELSE <<Op("fetch", k, ch, fetched), Op("insert", k, ch, made)>>)
                               \o <<Op("overlay", k, ch, cache2[ch.index])>>
                               \o rest.ops,
                       cache |-> cache]

\* the loop of overlay_osd_cached from glyph k: what it does in order, and the cache
RECURSIVE overlay_osd_cached(_, _, _, _)
overlay_osd_cached(glyphs, mask, k, cache) ==
    IF k > Len(glyphs) THEN [ops |-> << >>, cache |-> cache]
    ELSE LET ch == glyphs[k]
         IN  IF skipped(ch, mask) THEN overlay_osd_cached(glyphs, mask, k + 1, cache)
             ELSE LET hit     == ch.index \in DOMAIN cache
                      fetched == get_scaled_glyph(ch.index)
                      made    == IF IsSome(fetched) THEN Unwrap(fetched) ELSE "blank"
                      cache2  == or_insert(cache, ch.index, made)
                      rest    == overlay_osd_cached(glyphs, mask, k + 1, cache2)
                  IN  [ops |-> (IF hit THEN << >>
                                ELSE <<Op("fetch", k, ch, fetched), Op("insert", k, ch, made)>>)
                               \o <<Op("overlay", k, ch, cache2[ch.index])>>
                               \o rest.ops,
                       cache |-> rest.cache]

\* imageops::overlay of a glyph image on the frame buffer, the buffer being the composites
\* that changed pixels, in order: blending a fully transparent image changes none
composite(buffer, at, image) ==
    IF image = "blank" THEN buffer ELSE Append(buffer, [at |-> at, image |-> image])

\* the frame buffer after the composites among the first n things a call did
RECURSIVE frame_buffer(_, _)
frame_buffer(ops, n) ==
    IF n = 0 THEN << >>
    ELSE IF ops[n].op = "overlay"
         THEN composite(frame_buffer(ops, n - 1), ops[n].at, ops[n].image)
         ELSE frame_buffer(ops, n - 1)

\* the glyphs, grid positions and caches of the calls
GridPositions == {[x |-> 0, y |-> 0], [x |-> 1, y |-> 0]}
OsdGlyphs == {[index |-> i, grid_position |-> p] : i \in {0, 65, 66}, p \in GridPositions}
EmptyCache == << >>
Caches == {EmptyCache, [i \in {65} |-> "glyph"]}

(***************************************************************************)
(* The telemetry text compositor, overlay_srt_data, from its list of       *)
(* segments on: texts are sequences of characters.                         *)
(***************************************************************************)
\* the advance width of a character at the scale of the call
advance(c) == IF c = "W" THEN 50 ELSE 20

\* imageproc::drawing::text_size: the width of the text laid out on one line
RECURSIVE text_size(_)
text_size(text) == IF text = << >> THEN 0 ELSE advance(text[1]) + text_size(Tail(text))

separator == <<" ", " ">>

\* (10.0 / 1080.0 * image_dimensions.1 as f32) as i32; for the canvas heights of the
\* calls the single-precision product truncates to this quotient
padding_px(dimensions) == (10 * dimensions[2]) \div 1080

\* (image_dimensions.0 as i32 - x_start - padding_px).max(100)
max_width(dimensions, x) ==
    IF dimensions[1] - x - padding_px(dimensions) > 100
    THEN dimensions[1] - x - padding_px(dimensions)
    ELSE 100

\* the wrap loop breaking the line on every candidate that is too wide
RECURSIVE wrap_loop_always_break(_, _, _, _, _)
wrap_loop_always_break(segs, k, current_line, done, width_budget) ==
    IF k > Len(segs) THEN [done |-> done, current_line |-> current_line]
    ELSE LET segment == segs[k]
             potential_line == IF current_line = << >> THEN segment
                               ELSE current_line \o separator \o segment
             total_width == text_size(potential_line)
         IN  IF total_width > width_budget
             THEN wrap_loop_always_break(segs, k + 1, segment, Append(done, current_line),
                                         width_budget)
             ELSE wrap_loop_always_break(segs, k + 1, potential_line, done, width_budget)

\* the loop over the segments from segment k: the lines pushed and the current line
RECURSIVE wrap_loop(_, _, _, _, _)
wrap_loop(segs, k, current_line, done, width_budget) ==
    IF k > Len(segs) THEN [done |-> done, current_line |-> current_line]
    ELSE LET segment == segs[k]
             potential_line == IF current_line = << >> THEN segment
                               ELSE current_line \o separator \o segment
             total_width == text_size(potential_line)
         IN  IF total_width > width_budget /\ current_line # << >>
             THEN wrap_loop(segs, k + 1, segment, Append(done, current_line), width_budget)
             ELSE wrap_loop(segs, k + 1, potential_line, done, width_budget)

\* overlay_srt_data once the segments are made: the lines it draws, top to bottom
overlay_srt_data(segs, dimensions, x) ==
    IF segs = << >> THEN << >>
    ELSE LET r == wrap_loop(segs, 1, << >>, << >>, max_width(dimensions, x))
         IN  IF r.current_line # << >> THEN Append(r.done, r.current_line) ELSE r.done

\* the segments and canvases of the calls
SegmentTexts == {<<"i">>, <<"W">>, <<"W", "W", "W">>, <<"i", " ", " ", "i">>}
Canvases == {<<150, 1080>>, <<200, 1080>>}
XStarts == {0, 60}

(***************************************************************************)
(* State.                                                                  *)
(*                                                                         *)
(* One call of an event handler on one event:                              *)
(*   hSrc, hEvent   the stream and the event                               *)
(*   hRx            the outbound receiver is alive                         *)
(*   hChan          the outbound channel                                   *)
(*   hPc            "call", then "returned" or "panicked"                  *)
(*                                                                         *)
(* One render (start_video_render and the two threads it starts):          *)
(*   callRet        the call's result: "none" (not returned), "Ok", "Err"  *)
(*   spawned        the subprocesses that have been spawned                *)
(*   rx             the outbound receiver: "none", "held" by the caller,   *)
(*                  "dropped"                                              *)
(*   outbound       the outbound channel                                   *)
(*   received       per stream, the event ordinals of the messages the     *)
(*                  caller has dequeued, in the order it dequeued them     *)
(*   fatalSent      a DecoderFatalError or EncoderFatalError has been      *)
(*                  enqueued on the outbound channel                       *)
(*   sentLog        every message the two threads have enqueued on the     *)
(*                  outbound channel, in the order of the sends            *)
(*   inbound        an AbortRender is queued on the inbound channel        *)
(*   pipePc         the pipeline-drive ("Decoder handler") thread          *)
(*   decIdx         the number of decoder events the thread has pulled     *)
(*   decOver        the end events ("LogEOF", "Done") the decoder emitted  *)
(*   frames         the number of decoded frames the thread has consumed   *)
(*   writes         the write_all calls on the encoder's stdin, in order:  *)
(*                  <<frame, succeeded>>                                   *)
(*   stdinOpen      the encoder's stdin has not been dropped               *)
(*   encPc          the encoder-monitor ("Encoder handler") thread         *)
(*   encIdx         the number of encoder events the thread has pulled     *)
(*   encFailed      the encoder has logged a fatal line (and exits)        *)
(*                                                                         *)
(* One cue text given to the parsers:                                      *)
(*   line           the text                                               *)
(*   lineToks       the tokens it was joined from, << >> for another line  *)
(*   linePc         "call", then "returned"                                *)
(*   genericRet, ascentRet, debugRet                                       *)
(*                  the results of the three from_str                      *)
(*   cueRec         the records the cue closure makes of the text          *)
(*                                                                         *)
(* One call of SrtFile::open:                                              *)
(*   fileOk         srtparse::from_file reads the file                     *)
(*   cues           the cues it returns                                    *)
(*   openPc         "call", then "returned" or "panicked"                  *)
(*   openRet        "none", "Ok" or "Err"                                  *)
(*   srtFile        the SrtFile returned: its flags and frames             *)
(*                                                                         *)
(* One call of extract_osd_from_video:                                     *)
(*   fileName       the file name of the video                             *)
(*   video          the metadata entries of the video, as a scan of the    *)
(*                  whole file reports them: presentation time in          *)
(*                  microseconds and payload text                          *)
(*   extPc          "call", "quick", "full", "loop", "finish", then        *)
(*                  "returned" or "panicked"                               *)
(*   scans          the scans run so far, "quick" or "full", in order      *)
(*   quick_entries  the result of the first-two-seconds scan               *)
(*   entries        the result of the full scan                            *)
(*   entryIdx       the number of entries the loop has handled             *)
(*   osdFrames      the local frames                                       *)
(*   extRet         "none", "None" for Ok(None), "Some" for Ok(Some(file)) *)
(*   osdFile        None, or Some(the OsdFile returned)                    *)
(*                                                                         *)
(* One evaluation of the character index in parse_msp_payload:             *)
(*   attribute, glyph_byte   the two bytes                                 *)
(*   characterRet   None, then Some(the index)                             *)
(*                                                                         *)
(* One call of get_character_size:                                         *)
(*   width, height  the arguments                                          *)
(*   sizeRet        None, then Some(the size class)                        *)
(*                                                                         *)
(* One call of overlay_osd or overlay_osd_cached:                          *)
(*   ovCached       the call is of overlay_osd_cached                      *)
(*   ovGlyphs       the glyphs of the OSD frame                            *)
(*   ovMask         the masked grid positions of the options               *)
(*   glyph_cache    the glyph cache: index to "glyph" or "blank"           *)
(*   ovPc           "call", then "returned"                                *)
(*   ovOps          the font fetches, cache insertions and composites of   *)
(*                  the call in order, each with the number of the glyph   *)
(*                  of the frame it was made for                           *)
(*                                                                         *)
(* One render session of the glyph compositors:                            *)
(*   sMask          the masked grid positions of the options               *)
(*   sFrames        the OSD frames composited so far                       *)
(*   sCache         the session's glyph cache                              *)
(*   sCachedOps     per frame, what overlay_osd_cached did                 *)
(*   sPlainOps      per frame, what overlay_osd did                        *)
(*                                                                         *)
(* One call of parse_msp_payload:                                          *)
(*   msp            what the payload was built from: the command count,    *)
(*                  the commands and the number of data bytes kept         *)
(*   payloadText    the payload as hex text                                *)
(*   payloadPc      "call", then "returned"                                *)
(*   payloadRet     None, or Some(the glyphs returned)                     *)
(*   payloadReads   the offsets of the data the call read                  *)
(*                                                                         *)
(* One call of overlay_srt_data:                                           *)
(*   segments       the texts of the enabled fields                        *)
(*   image_dimensions, x_start   the canvas and the text's x position      *)
(*   wrapLines      the lines drawn                                        *)
(*   wrapPc         "call", then "returned"                                *)
(*                                                                         *)
(* The top panel of the application:                                       *)
(*   render_status  "Idle", "InProgress" or "Completed"                    *)
(*   video_file, loaded_osd_file, font_file, srt_file   the loaded files   *)
(*   topEvent       the last event: "open", "drop", "reset", "render"      *)
(*                                                                         *)
(* The encoder row of the rendering options:                               *)
(*   encoders       the application's encoder list                         *)
(*   show_undetected_encoders, selected_encoder_idx, encoder               *)
(*                  the fields of render_settings                          *)
(*   optionsPc      "shown", "selected", "toggled" or "panicked"           *)
(***************************************************************************)
VARIABLES hSrc, hEvent, hRx, hChan, hPc,
          callRet, spawned, rx, outbound, received, fatalSent, sentLog, inbound,
          pipePc, decIdx, decOver, frames, writes, stdinOpen,
          encPc, encIdx, encFailed,
          line, lineToks, linePc, genericRet, ascentRet, debugRet, cueRec,
          fileOk, cues, openPc, collected, openRet, srtFile,
          fileName, video, extPc, scans, quick_entries, entries, entryIdx, osdFrames,
          extRet, osdFile,
          attribute, glyph_byte, characterRet,
          width, height, sizeRet,
          ovCached, ovGlyphs, ovMask, glyph_cache, ovPc, ovOps,
          sMask, sFrames, sCache, sCachedOps, sPlainOps,
          msp, payloadText, payloadPc, payloadRet, payloadReads,
          segments, image_dimensions, x_start, wrapLines, wrapPc,
          render_status, video_file, loaded_osd_file, font_file, srt_file, topEvent,
          encoders, show_undetected_encoders, selected_encoder_idx, encoder, optionsPc

handlerVars == <<hSrc, hEvent, hRx, hChan, hPc>>
renderVars == <<callRet, spawned, rx, outbound, received, fatalSent, sentLog, inbound,
                pipePc, decIdx, decOver, frames, writes, stdinOpen,
                encPc, encIdx, encFailed>>
lineVars == <<line, lineToks, linePc, genericRet, ascentRet, debugRet, cueRec>>
fileVars == <<fileOk, cues, openPc, collected, openRet, srtFile>>
srtVars == <<lineVars, fileVars>>
extVars == <<fileName, video, extPc, scans, quick_entries, entries, entryIdx, osdFrames,
             extRet, osdFile>>
characterVars == <<attribute, glyph_byte, characterRet>>
sizeVars == <<width, height, sizeRet>>
overlayVars == <<ovCached, ovGlyphs, ovMask, glyph_cache, ovPc, ovOps>>
sessionVars == <<sMask, sFrames, sCache, sCachedOps, sPlainOps>>
payloadVars == <<msp, payloadText, payloadPc, payloadRet, payloadReads>>
wrapVars == <<segments, image_dimensions, x_start, wrapLines, wrapPc>>
osdVars == <<extVars, characterVars, sizeVars, overlayVars, sessionVars, payloadVars, wrapVars>>
topVars == <<render_status, video_file, loaded_osd_file, font_file, srt_file, topEvent>>
encoderVars == <<encoders, show_undetected_encoders, selected_encoder_idx, encoder, optionsPc>>
uiVars == <<topVars, encoderVars>>
vars == <<handlerVars, renderVars, srtVars, osdVars, uiVars>>

Streams == {"decoder", "encoder"}

HandlersQuiet ==
    /\ hSrc = "decoder"
    /\ hEvent = Ev("Other")
    /\ hRx = TRUE
    /\ hChan = << >>
    /\ hPc = "unused"

\* before start_video_render is called
RenderQuiet ==
    /\ callRet = "none"
    /\ spawned = {}
    /\ rx = "none"
    /\ outbound = << >>
    /\ received = [s \in Streams |-> << >>]
    /\ fatalSent = FALSE
    /\ inbound = FALSE
    /\ pipePc = "idle"
    /\ decIdx = 0
    /\ sentLog = << >>
    /\ decOver = {}
    /\ frames = 0
    /\ writes = << >>
    /\ stdinOpen = TRUE
    /\ encPc = "idle"
    /\ encIdx = 0
    /\ encFailed = FALSE

\* no result yet
NoResult == <<"none">>
NoRecords == [data |-> None, debug_data |-> None]
NoSrtFile == [flags |-> NoFlags, frames |-> << >>]

LineQuiet ==
    /\ line = << >>
    /\ lineToks = << >>
    /\ linePc = "unused"
    /\ genericRet = NoResult
    /\ ascentRet = NoResult
    /\ debugRet = NoResult
    /\ cueRec = NoRecords

FileQuiet ==
    /\ fileOk = TRUE
    /\ cues = << >>
    /\ openPc = "unused"
    /\ collected = NoSrtFile
    /\ openRet = "none"
    /\ srtFile = NoSrtFile

SrtQuiet == LineQuiet /\ FileQuiet

ExtQuiet ==
    /\ fileName = << >>
    /\ video = << >>
    /\ extPc = "unused"
    /\ scans = << >>
    /\ quick_entries = << >>
    /\ entries = << >>
    /\ entryIdx = 0
    /\ osdFrames = << >>
    /\ extRet = "none"
    /\ osdFile = None

CharacterQuiet ==
    /\ attribute = 0
    /\ glyph_byte = 0
    /\ characterRet = None

SizeQuiet ==
    /\ width = 0
    /\ height = 0
    /\ sizeRet = None

OverlayQuiet ==
    /\ ovCached = FALSE
    /\ ovGlyphs = << >>
    /\ ovMask = {}
    /\ glyph_cache = << >>
    /\ ovPc = "unused"
    /\ ovOps = << >>

SessionQuiet ==
    /\ sMask = {}
    /\ sFrames = << >>
    /\ sCache = << >>
    /\ sCachedOps = << >>
    /\ sPlainOps = << >>

PayloadQuiet ==
    /\ msp = [count |-> 0, commands |-> << >>, cut |-> 0]
    /\ payloadText = << >>
    /\ payloadPc = "unused"
    /\ payloadRet = None
    /\ payloadReads = {}

WrapQuiet ==
    /\ segments = << >>
    /\ image_dimensions = <<0, 0>>
    /\ x_start = 0
    /\ wrapLines = << >>
    /\ wrapPc = "unused"

CompositingQuiet == SessionQuiet /\ PayloadQuiet /\ WrapQuiet

OsdQuiet == ExtQuiet /\ CharacterQuiet /\ SizeQuiet /\ OverlayQuiet /\ CompositingQuiet

TopQuiet ==
    /\ render_status = "Idle"
    /\ video_file = None
    /\ loaded_osd_file = None
    /\ font_file = None
    /\ srt_file = None
    /\ topEvent = "unused"

EncoderQuiet ==
    /\ encoders = << >>
    /\ show_undetected_encoders = FALSE
    /\ selected_encoder_idx = 0
    /\ encoder = [name |-> "libx264", detected |-> FALSE]
    /\ optionsPc = "unused"

UiQuiet == TopQuiet /\ EncoderQuiet

(***************************************************************************)
(* The event handlers as functions: any event on either stream, the        *)
(* receiver alive or dropped, an empty channel.                            *)
(***************************************************************************)
InitHandlers ==
    /\ hSrc \in Streams
    /\ hEvent \in FfmpegEvents
    /\ hRx \in BOOLEAN
    /\ hChan = << >>
    /\ hPc = "call"
    /\ RenderQuiet
    /\ SrtQuiet
    /\ OsdQuiet
    /\ UiQuiet

\* handle_decoder_events(hEvent, sender) or handle_encoder_events(hEvent, sender)
HandleEvent ==
    /\ hPc = "call"
    /\ LET r == RunSends(HandlerSends(hSrc, hEvent), hChan, hRx, hSrc, 1)
       IN  /\ hChan' = r.chan
           /\ hPc' = IF r.panicked THEN "panicked" ELSE "returned"
    /\ UNCHANGED <<hSrc, hEvent, hRx>>
    /\ UNCHANGED <<renderVars, srtVars, osdVars, uiVars>>

NextHandlers == HandleEvent

SpecHandlers == InitHandlers /\ [][NextHandlers]_vars

\* the variants of the messages on a channel, in order
Variants(chan) == [i \in 1..Len(chan) |-> chan[i].msg[1]]
HasVariant(chan, v) == \E i \in 1..Len(chan) : chan[i].msg[1] = v

\* the handler has been called on a non-fatal Warning or Error log line of the decoder
NonFatalDecoderLogHandled ==
    /\ hPc # "call"
    /\ hSrc = "decoder"
    /\ hEvent.kind = "Log"
    /\ hEvent.level \in {"Warning", "Error"}

\* C2 as stated: a Warning or Error log line of the decoder, whatever its text, sends nothing
C2_NoMessageForNonFatalLog ==
    NonFatalDecoderLogHandled => hChan = << >>

\* C2 amended: a Warning or Error log line of the decoder never panics the handler and
\* sends no fatal-error and no finished message; it sends one Progress message when its
\* text parses as progress (and the receiver is alive), and nothing otherwise
C2_NonFatalLogSendsOnlyProgress ==
    NonFatalDecoderLogHandled =>
        /\ hPc = "returned"
        /\ Len(hChan) <= 1
        /\ \A i \in 1..Len(hChan) : hChan[i].msg[1] = "Progress"
        /\ hChan # << >> <=> (hRx /\ IsSome(manual_parse_progress(LogText(hEvent.text))))

C2_Witness ==
    /\ NonFatalDecoderLogHandled
    /\ hEvent.text = "T_progress"
    /\ Variants(hChan) = <<"Progress">>

\* the log lines that hold one of the encoder's two fatal substrings
FatalTexts == {"T_init", "T_load", "T_progress_init"}

\* C3: fatal errors are classified by stage: a decoder log line gives DecoderFatalError
\* iff its severity is Fatal, an encoder log line gives EncoderFatalError iff its text
\* holds a fatal substring, and no handler sends the other stream's fatal or finished
C3_FatalClassifiedByStage ==
    (hPc # "call" /\ hRx) =>
        /\ (hSrc = "decoder" /\ hEvent.kind = "Log") =>
              (HasVariant(hChan, "DecoderFatalError") <=> hEvent.level = "Fatal")
        /\ (hSrc = "encoder" /\ hEvent.kind = "Log") =>
              (HasVariant(hChan, "EncoderFatalError") <=> hEvent.text \in FatalTexts)
        /\ hEvent.kind # "Log" =>
              ~HasVariant(hChan, "DecoderFatalError") /\ ~HasVariant(hChan, "EncoderFatalError")
        /\ hSrc = "decoder" =>
              ~HasVariant(hChan, "EncoderFatalError") /\ ~HasVariant(hChan, "EncoderFinished")
        /\ hSrc = "encoder" =>
              ~HasVariant(hChan, "DecoderFatalError") /\ ~HasVariant(hChan, "DecoderFinished")
        /\ \A i \in 1..Len(hChan) :
              hChan[i].msg[1] \in {"DecoderFatalError", "EncoderFatalError"}
                  => hChan[i].msg[2] = <<hEvent.text>>

\* an Error-level line without a fatal substring is not fatal on the decoder, and a
\* fatal substring at Info level is fatal on the encoder
C3_Witness ==
    /\ hPc = "returned"
    /\ hRx
    /\ hSrc = "encoder"
    /\ hEvent = Log("Info", "T_load")
    /\ Variants(hChan) = <<"EncoderFatalError">>

\* the event is one the handler of its stream forwards as a fatal error
IsFatalEvent ==
    /\ hEvent.kind = "Log"
    /\ \/ hSrc = "decoder" /\ hEvent.level = "Fatal"
       \/ hSrc = "encoder" /\ hEvent.text \in FatalTexts

\* the event is one the handler of its stream forwards as a finished message
IsFinishedEvent ==
    \/ hSrc = "decoder" /\ hEvent.kind \in {"Done", "LogEOF"}
    \/ hSrc = "encoder" /\ hEvent.kind = "LogEOF"

\* C22: with the outbound receiver dropped, handling a structured progress event, a
\* fatal log line or an end event panics the thread that called the handler, and nothing
\* is enqueued; the thread does not return from the handler.
C22_DroppedReceiverAborts ==
    (hPc # "call" /\ ~hRx /\ (hEvent.kind = "Progress" \/ IsFatalEvent \/ IsFinishedEvent))
        => (hPc = "panicked" /\ hChan = << >>)

\* the decoder's end event handled after the caller dropped the receiver
C22_Witness ==
    /\ hPc = "panicked"
    /\ ~hRx
    /\ hSrc = "decoder"
    /\ hEvent.kind = "Done"

\* C25 as stated: one event gives at most one outbound message
C25_AtMostOneMessagePerEvent ==
    hPc # "call" => Len(hChan) <= 1

\* C25 amended: one event gives at most one outbound message, except a log line that
\* both parses as progress and is fatal for its stream: with the receiver alive it is
\* forwarded twice, as Progress first and as the stream's fatal error second
C25_OneMessageOrProgressThenFatal ==
    hPc # "call" =>
        /\ Len(hChan) <= 2
        /\ Len(hChan) = 2 <=>
              (hRx /\ IsFatalEvent /\ IsSome(manual_parse_progress(LogText(hEvent.text))))
        /\ Len(hChan) = 2 =>
              Variants(hChan) = <<"Progress",
                                 IF hSrc = "decoder" THEN "DecoderFatalError"
                                 ELSE "EncoderFatalError">>

\* an encoder line with frame=, fps= and a fatal substring went out twice
C25_Witness ==
    /\ hPc = "returned"
    /\ hSrc = "encoder"
    /\ hEvent.kind = "Log"
    /\ hEvent.text = "T_progress_init"
    /\ Variants(hChan) = <<"Progress", "EncoderFatalError">>

(***************************************************************************)
(* The render: start_video_render, the pipeline-drive thread, the          *)
(* encoder-monitor thread, and the caller at the other end of the two      *)
(* channels.                                                               *)
(***************************************************************************)
MaxDecoderEvents == 3
MaxEncoderEvents == 2

\* the events the model's decoder and encoder emit
RenderDecoderEvents ==
    {Ev("OutputFrame"), Ev("LogEOF"), Ev("Done"), Log("Fatal", "T_plain")}
RenderEncoderEvents ==
    {Ev("LogEOF"), Log("Error", "T_init"), Log("Info", "T_short")}

\* the handlers on the render's events
DecoderSends == [e \in RenderDecoderEvents |-> handle_decoder_events(e)]
EncoderSends == [e \in RenderEncoderEvents |-> handle_encoder_events(e)]
EncoderFailsOn == {e \in RenderEncoderEvents : e.kind = "Log" /\ e.text \in {"T_init", "T_progress_init"}}

InitRender == HandlersQuiet /\ RenderQuiet /\ SrtQuiet /\ OsdQuiet /\ UiQuiet

\* start_video_render with the channels made and the pipeline thread started before
\* spawn_encoder is tried
start_video_render_thread_first(decoder_ok, encoder_ok) ==
    /\ callRet = "none"
    /\ IF ~decoder_ok
       THEN /\ callRet' = "Err"
            /\ UNCHANGED <<spawned, rx, pipePc, encPc>>
       ELSE IF ~encoder_ok
       THEN /\ callRet' = "Err"
            /\ spawned' = {"decoder"}
            /\ rx' = "dropped"
            /\ pipePc' = "next"
            /\ UNCHANGED encPc
       ELSE /\ callRet' = "Ok"
            /\ spawned' = {"decoder", "encoder"}
            /\ rx' = "held"
            /\ pipePc' = "next"
            /\ encPc' = "run"
    /\ UNCHANGED <<outbound, received, fatalSent, sentLog, inbound, decIdx, decOver, frames, writes,
                   stdinOpen, encIdx, encFailed>>
    /\ UNCHANGED <<handlerVars, srtVars, osdVars, uiVars>>

(***************************************************************************)
(* start_video_render.  spawn_decoder and spawn_encoder each succeed or    *)
(* fail (the "?" returns the error at once); after both have succeeded the *)
(* channels are created, the two threads are started and the caller gets   *)
(* Ok((to_ffmpeg_tx, from_ffmpeg_rx)).                                     *)
(***************************************************************************)
start_video_render(decoder_ok, encoder_ok) ==
    /\ callRet = "none"
    /\ IF ~decoder_ok
       THEN /\ callRet' = "Err"
            /\ UNCHANGED <<spawned, rx, pipePc, encPc>>
       ELSE IF ~encoder_ok
       THEN /\ callRet' = "Err"
            /\ spawned' = {"decoder"}
            /\ UNCHANGED <<rx, pipePc, encPc>>
       ELSE /\ callRet' = "Ok"
            /\ spawned' = {"decoder", "encoder"}
            /\ rx' = "held"
            /\ pipePc' = "next"
            /\ encPc' = "run"
    /\ UNCHANGED <<outbound, received, fatalSent, sentLog, inbound, decIdx, decOver, frames, writes,
                   stdinOpen, encIdx, encFailed>>
    /\ UNCHANGED <<handlerVars, srtVars, osdVars, uiVars>>

StartVideoRender ==
    \E decoder_ok, encoder_ok \in BOOLEAN : start_video_render(decoder_ok, encoder_ok)

(***************************************************************************)
(* FrameOverlayIter::next, entry: an AbortRender on the inbound channel    *)
(* ends the sequence; otherwise the decoder's events are pulled.           *)
(***************************************************************************)
PipeNext ==
    /\ pipePc = "next"
    /\ pipePc' = IF inbound THEN "exhausted" ELSE "pull"
    /\ inbound' = FALSE
    /\ UNCHANGED <<callRet, spawned, rx, outbound, received, fatalSent, sentLog, decIdx, decOver, frames,
                   writes, stdinOpen, encPc, encIdx, encFailed>>
    /\ UNCHANGED <<handlerVars, srtVars, osdVars, uiVars>>

\* what the decoder can emit next: each end event once, no frame after Done and no log
\* line after LogEOF
DecoderCanEmit(e) ==
    /\ e.kind \in {"LogEOF", "Done"} => e.kind \notin decOver
    /\ e.kind = "OutputFrame" => "Done" \notin decOver
    /\ e.kind \in {"Log", "Progress"} => "LogEOF" \notin decOver

(***************************************************************************)
(* FrameOverlayIter::next, one decoder event: a decoded frame is           *)
(* composited and returned to for_each; any other event goes to            *)
(* handle_decoder_events inline and the pull goes on.  A panic of the      *)
(* handler unwinds the thread, which drops encoder_stdin.                  *)
(***************************************************************************)
pipe_pull(e) ==
    /\ pipePc = "pull"
    /\ decIdx < MaxDecoderEvents
    /\ DecoderCanEmit(e)
    /\ decIdx' = decIdx + 1
    /\ decOver' = IF e.kind \in {"LogEOF", "Done"} THEN decOver \cup {e.kind} ELSE decOver
    /\ IF e.kind = "OutputFrame"
       THEN /\ frames' = frames + 1
            /\ pipePc' = "write"
            /\ UNCHANGED <<outbound, fatalSent, sentLog, stdinOpen>>
       ELSE LET r == RunSends(DecoderSends[e], outbound, rx = "held", "decoder", decIdx + 1)
            IN  /\ outbound' = r.chan
                /\ fatalSent' = (fatalSent \/ HasFatal(r.chan))
                /\ sentLog' = sentLog \o SubSeq(r.chan, Len(outbound) + 1, Len(r.chan))
                /\ pipePc' = IF r.panicked THEN "panicked" ELSE "pull"
                /\ stdinOpen' = IF r.panicked THEN FALSE ELSE stdinOpen
                /\ frames' = frames
    /\ UNCHANGED <<callRet, spawned, rx, received, inbound, writes, encPc, encIdx, encFailed>>
    /\ UNCHANGED <<handlerVars, srtVars, osdVars, uiVars>>

PipePull == \E e \in RenderDecoderEvents : pipe_pull(e)

\* the decoder's event stream ends: next() returns None
PipeEnd ==
    /\ pipePc = "pull"
    /\ pipePc' = "exhausted"
    /\ UNCHANGED <<callRet, spawned, rx, outbound, received, fatalSent, sentLog, inbound, decIdx, decOver, frames,
                   writes, stdinOpen, encPc, encIdx, encFailed>>
    /\ UNCHANGED <<handlerVars, srtVars, osdVars, uiVars>>

\* the for_each closure giving up the encoder's stdin on the first failed write
pipe_write_closing(ok) ==
    /\ pipePc = "write"
    /\ writes' = Append(writes, <<frames, ok>>)
    /\ pipePc' = "next"
    /\ stdinOpen' = (stdinOpen /\ ok)
    /\ UNCHANGED <<callRet, spawned, rx, outbound, received, fatalSent, sentLog, inbound, decIdx, decOver,
                   frames, encPc, encIdx, encFailed>>
    /\ UNCHANGED <<handlerVars, srtVars, osdVars, uiVars>>

\* the for_each closure: encoder_stdin.write_all(&f.data); an error is logged and the
\* loop goes on
pipe_write(ok) ==
    /\ pipePc = "write"
    /\ writes' = Append(writes, <<frames, ok>>)
    /\ pipePc' = "next"
    /\ UNCHANGED <<callRet, spawned, rx, outbound, received, fatalSent, sentLog, inbound, decIdx, decOver, frames,
                   stdinOpen, encPc, encIdx, encFailed>>
    /\ UNCHANGED <<handlerVars, srtVars, osdVars, uiVars>>

PipeWrite == \E ok \in BOOLEAN : pipe_write(ok)

\* for_each has returned: the thread's closure ends and encoder_stdin is dropped
PipeFinish ==
    /\ pipePc = "exhausted"
    /\ pipePc' = "done"
    /\ stdinOpen' = FALSE
    /\ UNCHANGED <<callRet, spawned, rx, outbound, received, fatalSent, sentLog, inbound, decIdx, decOver, frames,
                   writes, encPc, encIdx, encFailed>>
    /\ UNCHANGED <<handlerVars, srtVars, osdVars, uiVars>>

\* what the encoder can emit next: it reaches the end of its log when its stdin has been
\* closed or after it has failed
EncoderCanEmit(e) ==
    e.kind = "LogEOF" => (~stdinOpen \/ encFailed)

\* the encoder thread's for_each over encoder_process.iter(): one event, handed to
\* handle_encoder_events(event, &from_ffmpeg_tx); the iterator ends after LogEOF
enc_event(e) ==
    /\ encPc = "run"
    /\ encIdx < MaxEncoderEvents
    /\ EncoderCanEmit(e)
    /\ encIdx' = encIdx + 1
    /\ encFailed' = (encFailed \/ e \in EncoderFailsOn)
    /\ LET r == RunSends(EncoderSends[e], outbound, rx = "held", "encoder", encIdx + 1)
       IN  /\ outbound' = r.chan
           /\ fatalSent' = (fatalSent \/ HasFatal(r.chan))
           /\ sentLog' = sentLog \o SubSeq(r.chan, Len(outbound) + 1, Len(r.chan))
           /\ encPc' = IF r.panicked THEN "panicked"
                       ELSE IF e.kind = "LogEOF" THEN "done" ELSE "run"
    /\ UNCHANGED <<callRet, spawned, rx, received, inbound, pipePc, decIdx, decOver, frames,
                   writes, stdinOpen>>
    /\ UNCHANGED <<handlerVars, srtVars, osdVars, uiVars>>

EncEvent == \E e \in RenderEncoderEvents : enc_event(e)

\* the caller dequeues a message from from_ffmpeg_rx
CallerRecv ==
    /\ rx = "held"
    /\ outbound # << >>
    /\ received' = [received EXCEPT ![Head(outbound).src] = Append(@, Head(outbound).idx)]
    /\ outbound' = Tail(outbound)
    /\ UNCHANGED <<callRet, spawned, rx, fatalSent, sentLog, inbound, pipePc, decIdx, decOver, frames,
                   writes, stdinOpen, encPc, encIdx, encFailed>>
    /\ UNCHANGED <<handlerVars, srtVars, osdVars, uiVars>>

\* the caller sends ToFfmpegMessage::AbortRender on to_ffmpeg_tx
CallerAbort ==
    /\ rx # "none"
    /\ ~inbound
    /\ pipePc \notin {"done", "panicked"}
    /\ inbound' = TRUE
    /\ UNCHANGED <<callRet, spawned, rx, outbound, received, fatalSent, sentLog, pipePc, decIdx, decOver, frames,
                   writes, stdinOpen, encPc, encIdx, encFailed>>
    /\ UNCHANGED <<handlerVars, srtVars, osdVars, uiVars>>

\* the caller drops from_ffmpeg_rx: the queued messages go with it
CallerDropRx ==
    /\ rx = "held"
    /\ rx' = "dropped"
    /\ outbound' = << >>
    /\ UNCHANGED <<callRet, spawned, received, fatalSent, sentLog, inbound, pipePc, decIdx, decOver, frames,
                   writes, stdinOpen, encPc, encIdx, encFailed>>
    /\ UNCHANGED <<handlerVars, srtVars, osdVars, uiVars>>

NextRender ==
    \/ StartVideoRender
    \/ PipeNext
    \/ PipePull
    \/ PipeEnd
    \/ PipeWrite
    \/ PipeFinish
    \/ EncEvent
    \/ CallerRecv
    \/ CallerAbort
    \/ CallerDropRx

SpecRender == InitRender /\ [][NextRender]_vars

SpecRenderFair == SpecRender /\ WF_vars(PipeFinish)

\* the frames whose write on the encoder's stdin succeeded, in the order written
RECURSIVE Written(_)
Written(ws) ==
    IF ws = << >> THEN << >>
    ELSE IF ws[1][2] THEN <<ws[1][1]>> \o Written(Tail(ws)) ELSE Written(Tail(ws))

SomeWriteFailed == \E i \in 1..Len(writes) : ~writes[i][2]

\* C1: once a fatal transcoder error has been forwarded on the outbound channel, the
\* pipeline-drive thread consumes no further decoded frame and writes no further frame
\* to the encoder's stdin
C1_NoFrameAfterFatal ==
    [][fatalSent => (frames' = frames /\ writes' = writes)]_vars

C5_ClosedAfterAllFramesWritten ==
    ~stdinOpen => (pipePc = "done" /\ Written(writes) = [i \in 1..frames |-> i])

\* the i-th write is of the i-th frame, and each frame is handed to write_all before the
\* next one is pulled
WritesInEmissionOrder ==
    /\ \A i \in 1..Len(writes) : writes[i][1] = i
    /\ Len(writes) = IF pipePc = "write" THEN frames - 1 ELSE frames

\* C5 amended: the encoder's stdin is closed only when the pipeline-drive thread has
\* ended (the pipeline exhausted, or the thread aborted by a send on a closed outbound
\* channel); every frame the pipeline emits is handed to one write on stdin in emission
\* order before the close, the frames written being those whose write succeeded; and
\* once the pipeline is exhausted the stdin is eventually closed
C5_ClosedWhenPipelineEnds ==
    /\ [](/\ ~stdinOpen <=> pipePc \in {"done", "panicked"}
          /\ WritesInEmissionOrder
          /\ encPc = "done" => (~stdinOpen \/ encFailed))
    /\ (pipePc = "exhausted" ~> ~stdinOpen)

\* two frames were written and the stdin closed at the end of the pipeline; the encoder,
\* which had not failed, then reached the end of its log and EncoderFinished was sent
C5_Witness ==
    /\ pipePc = "done"
    /\ ~stdinOpen
    /\ Written(writes) = <<1, 2>>
    /\ encPc = "done"
    /\ ~encFailed

\* is[1] <= is[2] <= ...
NonDecreasing(is) == \A i, j \in 1..Len(is) : i < j => is[i] <= is[j]

\* the event ordinals of the messages of stream s queued on the channel, in queue order
RECURSIVE Pending(_, _)
Pending(chan, s) ==
    IF chan = << >> THEN << >>
    ELSE IF chan[1].src = s THEN <<chan[1].idx>> \o Pending(Tail(chan), s)
    ELSE Pending(Tail(chan), s)

\* C6: per stream, the caller dequeues the messages in the order the subprocess emitted
\* their events, under every interleaving of the two threads
C6_PerStreamOrder ==
    \A s \in Streams : NonDecreasing(received[s] \o Pending(outbound, s))

\* the caller has dequeued the messages of two events of each stream
C6_Witness ==
    /\ received["decoder"] = <<1, 2>>
    /\ received["encoder"] = <<1, 2>>

(***************************************************************************)
(* The parsers as functions: a line of the test lines, of the lines in the *)
(* two display formats, or joined from at most MaxTokens tokens.           *)
(***************************************************************************)
MaxTokens == 2

TokenSeqs == UNION {[1..n -> TokenIds] : n \in 1..MaxTokens}

InitLine ==
    /\ \/ /\ lineToks \in TokenSeqs
          /\ line = Join(lineToks)
       \/ /\ lineToks = << >>
          /\ line \in FixedLines
    /\ linePc = "call"
    /\ genericRet = NoResult
    /\ ascentRet = NoResult
    /\ debugRet = NoResult
    /\ cueRec = NoRecords
    /\ FileQuiet
    /\ HandlersQuiet
    /\ RenderQuiet
    /\ OsdQuiet
    /\ UiQuiet

\* line.parse::<SrtFrameData>(), ::<AscentSrtFrameData>(), ::<SrtDebugFrameData>() and
\* the cue closure on the line
ParseLine ==
    /\ linePc = "call"
    /\ genericRet' = SrtFrameData_from_str(line)
    /\ ascentRet' = AscentSrtFrameData_from_str(line)
    /\ debugRet' = SrtDebugFrameData_from_str(line)
    /\ cueRec' = cue_records(line)
    /\ linePc' = "returned"
    /\ UNCHANGED <<line, lineToks>>
    /\ UNCHANGED <<handlerVars, renderVars, fileVars, osdVars, uiVars>>

NextLine == ParseLine

SpecLine == InitLine /\ [][NextLine]_vars

(***************************************************************************)
(* SrtFile::open on a file that cannot be read, or on one of at most       *)
(* MaxCues cues.                                                           *)
(***************************************************************************)
MaxCues == 2

CueSeqs == UNION {[1..n -> Cues] : n \in 0..MaxCues}

InitFile ==
    /\ \/ fileOk = TRUE /\ cues \in CueSeqs
       \/ fileOk = FALSE /\ cues = << >>
    /\ openPc = "call"
    /\ collected = NoSrtFile
    /\ openRet = "none"
    /\ srtFile = NoSrtFile
    /\ LineQuiet
    /\ HandlersQuiet
    /\ RenderQuiet
    /\ OsdQuiet
    /\ UiQuiet

\* srtparse::from_file(&path)?
from_file ==
    /\ openPc = "call"
    /\ IF fileOk
       THEN /\ openPc' = "map"
            /\ UNCHANGED openRet
       ELSE /\ openPc' = "returned"
            /\ openRet' = "Err"
    /\ UNCHANGED <<fileOk, cues, collected, srtFile>>
    /\ UNCHANGED <<handlerVars, renderVars, lineVars, osdVars, uiVars>>

\* .iter().map(closure) on the next cue: the closure sets the flags and returns Ok(frame)
map_cue ==
    /\ openPc = "map"
    /\ Len(collected.frames) < Len(cues)
    /\ LET cue == cues[Len(collected.frames) + 1]
       IN  \E r \in {cue_records(cue.text)} :
               collected' = [flags |-> update_flags(collected.flags, r),
                             frames |-> Append(collected.frames, cue_frame(cue, r))]
    /\ UNCHANGED <<fileOk, cues, openPc, openRet, srtFile>>
    /\ UNCHANGED <<handlerVars, renderVars, lineVars, osdVars, uiVars>>

\* .collect::<Result<Vec<_>, _>>()?, the duration from the last frame (last().unwrap()
\* panics when there is none), Ok(Self { .. })
open_return ==
    /\ openPc = "map"
    /\ Len(collected.frames) = Len(cues)
    /\ IF collected.frames = << >>
       THEN /\ openPc' = "panicked"
            /\ UNCHANGED <<openRet, srtFile>>
       ELSE /\ openPc' = "returned"
            /\ openRet' = "Ok"
            /\ srtFile' = collected
    /\ UNCHANGED <<fileOk, cues, collected>>
    /\ UNCHANGED <<handlerVars, renderVars, lineVars, osdVars, uiVars>>

NextFile == from_file \/ map_cue \/ open_return

SpecSrt == InitFile /\ [][NextFile]_vars

(***************************************************************************)
(* Properties of the line parsers and of the cue closure.                  *)
(***************************************************************************)
\* the keys of a field, each with its ":"
FieldKeys(f) ==
    CASE f = "signal" -> {Keys.Signal, Keys.MCS}
      [] f = "channel" -> {Keys.CH}
      [] f = "flight_time" -> {Keys.FlightTime}
      [] f = "sky_bat" -> {Keys.SBat}
      [] f = "ground_bat" -> {Keys.GBat}
      [] f = "latency" -> {Keys.Delay}
      [] f = "bitrate_mbps" -> {Keys.Bitrate}
      [] f = "distance" -> {Keys.Distance}
      [] f = "air_temp" -> {Keys.AirTemp}
      [] f = "gnd_temp" -> {Keys.GndTemp}
      [] f = "sty_mode" -> {Keys.STYMode}
      [] OTHER -> {}

KeyOccurs(s, f) == \E k \in FieldKeys(f) : contains(s, k \o <<":">>)

SharedFields ==
    {"signal", "channel", "flight_time", "sky_bat", "ground_bat", "latency", "bitrate_mbps",
     "distance"}

\* C7: a line that the Ascent schema parses gets its primary record from that schema and
\* not from the generic one: hz, sp and gp are populated, the eight shared fields are the
\* Ascent values, and air_temp, gnd_temp and sty_mode are absent.
C7_AscentPriority ==
    (linePc = "returned" /\ is_ok(ascentRet)) =>
        /\ IsSome(cueRec.data)
        /\ cueRec.data # Result_ok(genericRet)
        /\ \A f \in SharedFields \cup {"hz", "sp", "gp"} :
               Unwrap(cueRec.data)[f] = Some(ascentRet[2][f])
        /\ \A f \in {"air_temp", "gnd_temp", "sty_mode"} : Unwrap(cueRec.data)[f] = None

C7_Witness ==
    /\ linePc = "returned"
    /\ line = Lines.ascent
    /\ is_ok(ascentRet)
    /\ Unwrap(cueRec.data).hz = Some(5805000)
    /\ Unwrap(cueRec.data).sp = Some(19)
    /\ Unwrap(cueRec.data).gp = Some(17)
    /\ Unwrap(cueRec.data).channel = Some(<<"A", "U", "T", "O">>)
    /\ Unwrap(cueRec.data).ground_bat = Some(<<1, 11, <<"6">>>>)

\* C8 as stated: at most one schema contributes a record to a cue, so a cue whose text the
\* debug schema parses has no primary record.
C8_AtMostOneSchema ==
    linePc = "returned" =>
        /\ ~(IsSome(cueRec.debug_data) /\ IsSome(cueRec.data))
        /\ is_ok(debugRet) => cueRec.data = None

\* C8 as amended: the primary record comes from the Ascent schema if it parses the line
\* and from the generic schema otherwise, so every cue has one; the debug record is there
\* exactly when the debug schema parses the line, beside the primary record, which is then
\* the generic one (no line is parsed by both the debug and the Ascent schema) and agrees
\* with the debug record on MCS and Delay.
C8_PrimaryByPriorityDebugBeside ==
    linePc = "returned" =>
        /\ IsSome(cueRec.data)
        /\ cueRec.data = IF is_ok(ascentRet) THEN Some(SrtFrameData_from(ascentRet[2]))
                         ELSE Result_ok(genericRet)
        /\ IsSome(cueRec.debug_data) <=> is_ok(debugRet)
        /\ ~(is_ok(debugRet) /\ is_ok(ascentRet))
        /\ is_ok(debugRet) =>
               /\ cueRec.debug_data = Some(debugRet[2])
               /\ cueRec.data = Result_ok(genericRet)
               /\ Unwrap(cueRec.data).signal = Some(debugRet[2].signal)
               /\ Unwrap(cueRec.data).latency = Some(debugRet[2].latency)
               /\ Unwrap(cueRec.data).hz = None

C8_Witness ==
    /\ linePc = "returned"
    /\ line = Lines.debug
    /\ IsSome(cueRec.debug_data)
    /\ IsSome(cueRec.data)
    /\ Unwrap(cueRec.debug_data).serr_ext = 42
    /\ Unwrap(cueRec.data).signal = Some(4)

\* C9: SrtFrameData::from_str returns a record for every line; hz, sp and gp are absent; a
\* field none of whose keys occurs in the line is absent; and on a line of tokens each
\* field is what its last token denotes: absent when that token's value does not parse,
\* unchanged by the tokens of keys that are not recognized.
C9_GenericParseOrAbsent ==
    linePc = "returned" =>
        /\ is_ok(genericRet)
        /\ \A f \in {"hz", "sp", "gp"} : genericRet[2][f] = None
        /\ \A f \in FieldNames : ~KeyOccurs(line, f) => genericRet[2][f] = None
        /\ line = Join(lineToks) => genericRet[2] = ExpectedOfTokens(lineToks)

C9_Witness ==
    /\ linePc = "returned"
    /\ lineToks = <<"signal_bad", "delay">>
    /\ is_ok(genericRet)
    /\ genericRet[2].signal = None
    /\ genericRet[2].latency = Some(32)

(***************************************************************************)
(* Properties of SrtFile::open.                                            *)
(***************************************************************************)
\* frames are the frames of the cues cs, one for each in order, with its times
FramesOfCues(fs, cs) ==
    /\ Len(fs) = Len(cs)
    /\ \A i \in 1..Len(cs) :
           /\ fs[i].start_time_secs = as_secs_f32(cs[i].start_time)
           /\ fs[i].end_time_secs = as_secs_f32(cs[i].end_time)
           /\ fs[i].data = cue_records(cs[i].text).data

\* C10: when the file is read, open ends by returning a file that has one frame for each
\* cue, in cue order, with the cue's start and end time.
C10_OneFramePerCue ==
    (fileOk /\ openPc \in {"returned", "panicked"}) =>
        /\ openPc = "returned"
        /\ openRet = "Ok"
        /\ FramesOfCues(srtFile.frames, cues)

\* C11: opening a file that is read and has no cue ends by returning, with an outcome
\* that is not the error of a file that could not be read; it does not panic.
C11_EmptyFileIsNothingFound ==
    (fileOk /\ cues = << >> /\ openPc \in {"returned", "panicked"}) =>
        /\ openPc = "returned"
        /\ openRet # "Err"

\* the capability flag of a field of the primary record
FlagOfField(f) ==
    CASE f = "signal" -> "has_signal"
      [] f = "channel" -> "has_channel"
      [] f = "flight_time" -> "has_flight_time"
      [] f = "sky_bat" -> "has_sky_bat"
      [] f = "ground_bat" -> "has_ground_bat"
      [] f = "latency" -> "has_latency"
      [] f = "bitrate_mbps" -> "has_bitrate"
      [] f = "distance" -> "has_distance"
      [] f = "hz" -> "has_hz"
      [] f = "sp" -> "has_sp"
      [] f = "gp" -> "has_gp"
      [] f = "air_temp" -> "has_air_temp"
      [] f = "gnd_temp" -> "has_gnd_temp"
      [] f = "sty_mode" -> "has_sty_mode"

\* some frame of fs has a primary record with field f present
FieldInSomeFrame(fs, f) ==
    \E i \in 1..Len(fs) : IsSome(fs[i].data) /\ IsSome(Unwrap(fs[i].data)[f])

\* C12: in the file that open returns, the flag of each field is true exactly when some
\* frame has a primary record with the field present, and has_debug is true exactly when
\* some frame has a debug record.
C12_FlagsAreOrOverFrames ==
    (openPc = "returned" /\ openRet = "Ok") =>
        /\ \A f \in FieldNames :
               srtFile.flags[FlagOfField(f)] <=> FieldInSomeFrame(srtFile.frames, f)
        /\ srtFile.flags.has_debug <=>
               \E i \in 1..Len(srtFile.frames) : IsSome(srtFile.frames[i].debug_data)

\* a file of two cues is returned: the first frame has the signal and a debug record does
\* not exist for it, the last frame has no signal and has a debug record
C12_Witness ==
    /\ openPc = "returned"
    /\ openRet = "Ok"
    /\ Len(srtFile.frames) = 2
    /\ IsSome(Unwrap(srtFile.frames[1].data).signal)
    /\ ~IsSome(srtFile.frames[1].debug_data)
    /\ ~IsSome(Unwrap(srtFile.frames[2].data).signal)
    /\ srtFile.flags.has_signal
    /\ ~srtFile.flags.has_hz

(***************************************************************************)
(* extract_osd_from_video on one video: any file name of FileNames, any    *)
(* video of up to MaxEntries metadata entries, in any order.               *)
(***************************************************************************)
MaxEntries == 2

VideoSeqs == UNION {[1..n -> Entries] : n \in 0..MaxEntries}

InitExtract ==
    /\ fileName \in FileNames
    /\ video \in VideoSeqs
    /\ extPc = "call"
    /\ scans = << >>
    /\ quick_entries = << >>
    /\ entries = << >>
    /\ entryIdx = 0
    /\ osdFrames = << >>
    /\ extRet = "none"
    /\ osdFile = None
    /\ CharacterQuiet
    /\ SizeQuiet
    /\ OverlayQuiet
    /\ CompositingQuiet
    /\ UiQuiet
    /\ HandlersQuiet
    /\ RenderQuiet
    /\ SrtQuiet

\* the check of the file name
name_check ==
    /\ extPc = "call"
    /\ IF skip_by_name(fileName)
       THEN extPc' = "returned" /\ extRet' = "None"
       ELSE extPc' = "quick" /\ UNCHANGED extRet
    /\ UNCHANGED <<fileName, video, scans, quick_entries, entries, entryIdx, osdFrames, osdFile>>
    /\ UNCHANGED <<handlerVars, renderVars, srtVars, characterVars, sizeVars, overlayVars,
                 sessionVars, payloadVars, wrapVars, uiVars>>

\* the scan of the first two seconds and the check of its result
quick_scan ==
    /\ extPc = "quick"
    /\ \E run_ok \in BOOLEAN :
          quick_entries' = extract_sei_data(video, Some(QuickScanMicros), run_ok)
    /\ scans' = Append(scans, "quick")
    /\ extPc' = after_quick_scan(quick_entries')
    /\ extRet' = IF extPc' = "returned" THEN "None" ELSE extRet
    /\ UNCHANGED <<fileName, video, entries, entryIdx, osdFrames, osdFile>>
    /\ UNCHANGED <<handlerVars, renderVars, srtVars, characterVars, sizeVars, overlayVars,
                 sessionVars, payloadVars, wrapVars, uiVars>>

\* the scan of the whole file and the check of its result
full_scan ==
    /\ extPc = "full"
    /\ \E run_ok \in BOOLEAN :
          entries' = extract_sei_data(video, None, run_ok)
    /\ scans' = Append(scans, "full")
    /\ IF entries' = << >>
       THEN extPc' = "returned" /\ extRet' = "None"
       ELSE extPc' = "loop" /\ UNCHANGED extRet
    /\ UNCHANGED <<fileName, video, quick_entries, entryIdx, osdFrames, osdFile>>
    /\ UNCHANGED <<handlerVars, renderVars, srtVars, characterVars, sizeVars, overlayVars,
                 sessionVars, payloadVars, wrapVars, uiVars>>

\* one turn of the loop over the entries
loop_entry ==
    /\ extPc = "loop"
    /\ entryIdx < Len(entries)
    /\ \E f \in {frame_of_entry(entries[entryIdx + 1])} :
          osdFrames' = osdFrames \o f
    /\ entryIdx' = entryIdx + 1
    /\ UNCHANGED <<fileName, video, extPc, scans, quick_entries, entries, extRet, osdFile>>
    /\ UNCHANGED <<handlerVars, renderVars, srtVars, characterVars, sizeVars, overlayVars,
                 sessionVars, payloadVars, wrapVars, uiVars>>

\* after the loop: Ok(None) without frames, else the frame interval and Ok(Some(file)).
\* last - first on u32 with last < first panics where overflow checks are compiled in
\* and wraps around where they are not.
finish ==
    /\ extPc = "loop"
    /\ entryIdx = Len(entries)
    /\ IF osdFrames = << >>
       THEN extPc' = "returned" /\ extRet' = "None" /\ UNCHANGED osdFile
       ELSE IF osdFrames[Len(osdFrames)].time_millis < osdFrames[1].time_millis
            THEN \E overflow_checks \in BOOLEAN :
                    IF overflow_checks
                    THEN extPc' = "panicked" /\ UNCHANGED <<extRet, osdFile>>
                    ELSE /\ extPc' = "returned"
                         /\ extRet' = "Some"
                         /\ osdFile' = Some(osd_file(osdFrames, TRUE))
            ELSE /\ extPc' = "returned"
                 /\ extRet' = "Some"
                 /\ osdFile' = Some(osd_file(osdFrames, FALSE))
    /\ UNCHANGED <<fileName, video, scans, quick_entries, entries, entryIdx, osdFrames>>
    /\ UNCHANGED <<handlerVars, renderVars, srtVars, characterVars, sizeVars, overlayVars,
                 sessionVars, payloadVars, wrapVars, uiVars>>

NextExtract == name_check \/ quick_scan \/ full_scan \/ loop_entry \/ finish

SpecExtract == InitExtract /\ [][NextExtract]_vars

(***************************************************************************)
(* Properties of extract_osd_from_video.                                   *)
(***************************************************************************)
\* C13: the scan of the whole file is run only after the scan of the first two seconds has
\* returned at least one entry; when that scan returns none, the call returns Ok(None)
\* with the scan of the whole file never run.
C13_FullScanOnlyAfterQuickFound ==
    /\ (\E i \in 1..Len(scans) : scans[i] = "full") =>
           (scans = <<"quick", "full">> /\ quick_entries # << >>)
    /\ (scans # << >> /\ quick_entries = << >>) =>
           (scans = <<"quick">> /\ extPc = "returned" /\ extRet = "None")

\* the quick scan found nothing in a video that has entries, and the call has returned
C13_Witness ==
    /\ video # << >>
    /\ scans = <<"quick">>
    /\ quick_entries = << >>
    /\ extPc = "returned"
    /\ extRet = "None"

\* the frames of the file returned
ReturnedFrames == IF IsSome(osdFile) THEN Unwrap(osdFile).frames ELSE << >>

\* C14: every glyph of every frame of the file returned has column < 53, row < 20 and an
\* index other than 0 and 0x20.
C14_RetainedGlyphsInGrid ==
    \A i \in 1..Len(ReturnedFrames) :
        \A k \in 1..Len(ReturnedFrames[i].glyphs) :
            LET g == ReturnedFrames[i].glyphs[k]
            IN  /\ g.grid_position.x < 53
                /\ g.grid_position.y < 20
                /\ g.index \notin {0, 32}

\* a file is returned of which a frame is of the payload with glyphs at columns 52 and 53:
\* the frame has the glyph of column 52 alone
C14_Witness ==
    /\ extRet = "Some"
    /\ \E i \in 1..Len(entries) : entries[i].hex = PayloadTexts.edge
    /\ \E i \in 1..Len(ReturnedFrames) :
          ReturnedFrames[i].glyphs = <<[index |-> 517, grid_position |-> [x |-> 52, y |-> 1]]>>

\* the payload of the entry decodes and has a glyph that the filter keeps
Survives(en) ==
    LET glyphs_raw == parse_msp_payload(en.hex)
    IN  /\ IsSome(glyphs_raw)
        /\ \E k \in 1..Len(Unwrap(glyphs_raw)) : retained(Unwrap(glyphs_raw)[k])

\* C15: a call that returns gives Ok(None) exactly when no payload of the entries has a
\* glyph that survives; the file it gives otherwise has one frame for each payload with a
\* surviving glyph and no other, no frame without glyphs, at least one frame, and
\* frame_count equal to the number of its frames.
C15_NoEmptyFrameNoEmptyFile ==
    extPc = "returned" =>
        /\ extRet = "None" <=> ~(\E i \in 1..Len(entries) : Survives(entries[i]))
        /\ extRet = "Some" =>
               /\ IsSome(osdFile)
               /\ ReturnedFrames # << >>
               /\ \A i \in 1..Len(ReturnedFrames) : ReturnedFrames[i].glyphs # << >>
               /\ Len(ReturnedFrames) = Cardinality({i \in 1..Len(entries) : Survives(entries[i])})
               /\ Unwrap(osdFile).frame_count = Len(ReturnedFrames)

\* a file of one frame is returned from two entries, one of them a payload that decodes
\* and has no surviving glyph
C15_Witness ==
    /\ extPc = "returned"
    /\ extRet = "Some"
    /\ Len(entries) = 2
    /\ Len(ReturnedFrames) = 1
    /\ \E i \in 1..2 : entries[i].hex = PayloadTexts.blank

\* C16: no two frames of the file returned have the same time_millis.
C16_OneFramePerMillisecond ==
    \A i, j \in 1..Len(ReturnedFrames) :
        i # j => ReturnedFrames[i].time_millis # ReturnedFrames[j].time_millis

\* C17: a call on entries in any order ends by returning, and the frames of a file it
\* returns have non-decreasing time_millis in sequence order.
C17_FramesNonDecreasing ==
    /\ extPc # "panicked"
    /\ \A i, j \in 1..Len(ReturnedFrames) :
           i < j => ReturnedFrames[i].time_millis <= ReturnedFrames[j].time_millis

(***************************************************************************)
(* The character index of parse_msp_payload on any two bytes.              *)
(***************************************************************************)
InitCharacter ==
    /\ attribute \in 0..255
    /\ glyph_byte \in 0..255
    /\ characterRet = None
    /\ ExtQuiet
    /\ SizeQuiet
    /\ OverlayQuiet
    /\ CompositingQuiet
    /\ UiQuiet
    /\ HandlersQuiet
    /\ RenderQuiet
    /\ SrtQuiet

EvalCharacter ==
    /\ characterRet = None
    /\ characterRet' = Some(character(attribute, glyph_byte))
    /\ UNCHANGED <<attribute, glyph_byte>>
    /\ UNCHANGED <<handlerVars, renderVars, srtVars, extVars, sizeVars, overlayVars,
                 sessionVars, payloadVars, wrapVars, uiVars>>

NextCharacter == EvalCharacter

SpecCharacter == InitCharacter /\ [][NextCharacter]_vars

\* C18: the character index of attribute byte a and glyph byte g is (a mod 4) * 256 + g;
\* it is below 1024 and is the index of the attribute byte with its upper six bits cleared.
C18_CharacterIndex ==
    IsSome(characterRet) =>
        /\ Unwrap(characterRet) = (attribute % 4) * 256 + glyph_byte
        /\ Unwrap(characterRet) < 1024
        /\ Unwrap(characterRet) = character(attribute % 4, glyph_byte)

\* attribute byte 0xfe, of low bits 0b10 with all upper bits set, and glyph byte 0x05
\* give 0x205
C18_Witness ==
    /\ attribute = 254
    /\ glyph_byte = 5
    /\ characterRet = Some(517)

(***************************************************************************)
(* get_character_size on any width of Widths and height of Heights.        *)
(***************************************************************************)
InitSize ==
    /\ width \in Widths
    /\ height \in Heights
    /\ sizeRet = None
    /\ ExtQuiet
    /\ CharacterQuiet
    /\ OverlayQuiet
    /\ CompositingQuiet
    /\ UiQuiet
    /\ HandlersQuiet
    /\ RenderQuiet
    /\ SrtQuiet

GetCharacterSize ==
    /\ sizeRet = None
    /\ sizeRet' = Some(get_character_size(width, height))
    /\ UNCHANGED <<width, height>>
    /\ UNCHANGED <<handlerVars, renderVars, srtVars, extVars, characterVars, overlayVars,
                 sessionVars, payloadVars, wrapVars, uiVars>>

NextSize == GetCharacterSize

SpecSize == InitSize /\ [][NextSize]_vars

\* the size class the table gives a height, four_three telling that width/height < 1.5
SizeTable(h, four_three) ==
    IF h = 540 THEN "Race"
    ELSE IF h = 720 THEN "Small"
    ELSE IF h = 1080 /\ four_three THEN "Small"
    ELSE IF h = 1080 THEN "Large"
    ELSE IF h = 1440 /\ four_three THEN "Large"
    ELSE IF h = 1440 THEN "XLarge"
    ELSE IF h = 2160 THEN "Ultra"
    ELSE "Large"

\* C19: get_character_size returns the size class of the table for the height and for
\* whether width/height < 1.5, and every width with the same answer to that test gives
\* the same class.
C19_CharacterSizeTable ==
    IsSome(sizeRet) =>
        /\ Unwrap(sizeRet) = SizeTable(height, 2 * width < 3 * height)
        /\ \A w \in Widths :
               ((2 * w < 3 * height) <=> (2 * width < 3 * height)) =>
                   get_character_size(w, height) = Unwrap(sizeRet)

\* 1920 x 1440 is 4:3 and gives Large
C19_Witness ==
    /\ width = 1920
    /\ height = 1440
    /\ sizeRet = Some("Large")

(***************************************************************************)
(* overlay_osd and overlay_osd_cached on one frame: any frame of up to     *)
(* MaxGlyphs glyphs, any mask set, the cache empty or filled by an earlier *)
(* frame.                                                                  *)
(***************************************************************************)
MaxGlyphs == 2

GlyphSeqs == UNION {[1..n -> OsdGlyphs] : n \in 0..MaxGlyphs}

InitOverlay ==
    /\ ovCached \in BOOLEAN
    /\ ovGlyphs \in GlyphSeqs
    /\ ovMask \in SUBSET GridPositions
    /\ glyph_cache \in (IF ovCached THEN Caches ELSE {EmptyCache})
    /\ ovPc = "call"
    /\ ovOps = << >>
    /\ ExtQuiet
    /\ CharacterQuiet
    /\ SizeQuiet
    /\ CompositingQuiet
    /\ UiQuiet
    /\ HandlersQuiet
    /\ RenderQuiet
    /\ SrtQuiet

OverlayOsd ==
    /\ ovPc = "call"
    /\ ~ovCached
    /\ ovOps' = overlay_osd(ovGlyphs, ovMask, 1)
    /\ ovPc' = "returned"
    /\ UNCHANGED <<ovCached, ovGlyphs, ovMask, glyph_cache>>
    /\ UNCHANGED <<handlerVars, renderVars, srtVars, extVars, characterVars, sizeVars,
                 sessionVars, payloadVars, wrapVars, uiVars>>

OverlayOsdCached ==
    /\ ovPc = "call"
    /\ ovCached
    /\ \E r \in {overlay_osd_cached(ovGlyphs, ovMask, 1, glyph_cache)} :
          /\ ovOps' = r.ops
          /\ glyph_cache' = r.cache
    /\ ovPc' = "returned"
    /\ UNCHANGED <<ovCached, ovGlyphs, ovMask>>
    /\ UNCHANGED <<handlerVars, renderVars, srtVars, extVars, characterVars, sizeVars,
                 sessionVars, payloadVars, wrapVars, uiVars>>

NextOverlay == OverlayOsd \/ OverlayOsdCached

SpecOverlay == InitOverlay /\ [][NextOverlay]_vars

\* C20: every composite, font fetch and cache insertion of a call is made for a glyph of
\* the frame whose grid position is not in the mask set and whose index is not 0.
C20_MaskedNeverComposited ==
    \A n \in 1..Len(ovOps) :
        LET ch == ovGlyphs[ovOps[n].glyph]
        IN  /\ ch.grid_position \notin ovMask
            /\ ch.index # 0
            /\ ovOps[n].at = ch.grid_position

\* a call returned on a frame with the same character at a masked and at an unmasked
\* position: it composited one glyph
C20_Witness ==
    /\ ovPc = "returned"
    /\ Len(ovGlyphs) = 2
    /\ ovGlyphs[1].index = 65
    /\ ovGlyphs[2].index = 65
    /\ ovGlyphs[1].grid_position \in ovMask
    /\ ovGlyphs[2].grid_position \notin ovMask
    /\ Cardinality({n \in 1..Len(ovOps) : ovOps[n].op = "overlay"}) = 1

(***************************************************************************)
(* A render session: the frames of one render composited one after the     *)
(* other by overlay_osd_cached with the session's glyph cache, empty at     *)
(* the start, and the same frames composited by overlay_osd.               *)
(***************************************************************************)
MaxFrames == 2

SessionGlyphs ==
    {[index |-> 65, grid_position |-> [x |-> 0, y |-> 0]],
     [index |-> 66, grid_position |-> [x |-> 0, y |-> 0]],
     [index |-> 66, grid_position |-> [x |-> 1, y |-> 0]]}

SessionFrames == UNION {[1..n -> SessionGlyphs] : n \in 0..MaxGlyphs}

InitSession ==
    /\ sMask \in {{}, {[x |-> 1, y |-> 0]}}
    /\ sFrames = << >>
    /\ sCache = EmptyCache
    /\ sCachedOps = << >>
    /\ sPlainOps = << >>
    /\ ExtQuiet
    /\ CharacterQuiet
    /\ SizeQuiet
    /\ OverlayQuiet
    /\ PayloadQuiet
    /\ WrapQuiet
    /\ UiQuiet
    /\ HandlersQuiet
    /\ RenderQuiet
    /\ SrtQuiet

\* the next frame of the session goes through both compositors
OverlayFrame ==
    /\ Len(sFrames) < MaxFrames
    /\ \E osd_frame \in SessionFrames :
          \E r \in {overlay_osd_cached(osd_frame, sMask, 1, sCache)} :
             /\ sFrames' = Append(sFrames, osd_frame)
             /\ sCachedOps' = Append(sCachedOps, r.ops)
             /\ sCache' = r.cache
             /\ sPlainOps' = Append(sPlainOps, overlay_osd(osd_frame, sMask, 1))
    /\ UNCHANGED sMask
    /\ UNCHANGED <<handlerVars, renderVars, srtVars, extVars, characterVars, sizeVars,
                   overlayVars, payloadVars, wrapVars, uiVars>>

NextSession == OverlayFrame

SpecSession == InitSession /\ [][NextSession]_vars

\* what the cached compositor did over the whole session, in order
RECURSIVE SessionOps(_)
SessionOps(n) == IF n = 0 THEN << >> ELSE SessionOps(n - 1) \o sCachedOps[n]

OpsOf(kind, index) ==
    {n \in 1..Len(SessionOps(Len(sCachedOps))) :
        /\ SessionOps(Len(sCachedOps))[n].op = kind
        /\ SessionOps(Len(sCachedOps))[n].index = index}

SessionIndices == {ch.index : ch \in SessionGlyphs}

\* C21: over the calls of a session that share one cache, the image of each glyph index
\* is fetched from the font and put in the cache at most once, every composite uses the
\* image the cache holds for the index, and an index the font lacks is cached as the
\* transparent placeholder and is looked up once like any other.
C21_GlyphFetchedOnce ==
    \A i \in SessionIndices :
        /\ Cardinality(OpsOf("fetch", i)) <= 1
        /\ Cardinality(OpsOf("insert", i)) <= 1
        /\ OpsOf("overlay", i) # {} =>
              /\ Cardinality(OpsOf("fetch", i)) = 1
              /\ i \in DOMAIN sCache
              /\ \A n \in OpsOf("overlay", i) :
                    SessionOps(Len(sCachedOps))[n].image = sCache[i]
              /\ sCache[i] = (IF i \in FontCharacters THEN "glyph" ELSE "blank")

\* two frames that both show a character of the font and one the font lacks: each was
\* fetched once and composited in both frames
C21_Witness ==
    /\ Len(sFrames) = 2
    /\ \A i \in {65, 66} :
          /\ Cardinality(OpsOf("overlay", i)) >= 2
          /\ Cardinality(OpsOf("fetch", i)) = 1
    /\ sCache[66] = "blank"

\* C28: for every frame of a session, the frame buffer overlay_osd_cached leaves, with a
\* cache that was empty before the first frame and is kept from frame to frame, is the
\* frame buffer overlay_osd leaves on the same frame, also when a glyph's index is not
\* in the font.
C28_CachedEqualsUncached ==
    \A f \in 1..Len(sFrames) :
        frame_buffer(sCachedOps[f], Len(sCachedOps[f]))
            = frame_buffer(sPlainOps[f], Len(sPlainOps[f]))

\* a second frame with a character of the font and one the font lacks, both shown in the
\* first frame too: the cached compositor blended the placeholder, the other skipped it
C28_Witness ==
    /\ Len(sFrames) = 2
    /\ \E k \in 1..Len(sFrames[2]) : sFrames[2][k].index = 65
    /\ \E n \in 1..Len(sCachedOps[2]) :
          /\ sCachedOps[2][n].op = "overlay"
          /\ sCachedOps[2][n].image = "blank"
    /\ \A n \in 1..Len(sCachedOps[2]) : sCachedOps[2][n].op = "overlay"
    /\ \A n \in 1..Len(sPlainOps[2]) :
          sPlainOps[2][n].op = "overlay" => sPlainOps[2][n].index = 65
    /\ frame_buffer(sPlainOps[2], Len(sPlainOps[2])) # << >>

\* the finished message of a stream
FinishedOf(s) == IF s = "decoder" THEN "DecoderFinished" ELSE "EncoderFinished"

\* C26: within one render each stream's finished message is sent at most once, and no
\* message of a stream is sent after the stream's finished message, whatever the
\* subprocess emits, an end-of-log event and a done event included.
C26_FinishedOnceAndLast ==
    \A s \in Streams :
        \A i \in 1..Len(sentLog) :
            (sentLog[i].src = s /\ sentLog[i].msg[1] = FinishedOf(s)) =>
                \A k \in (i + 1)..Len(sentLog) : sentLog[k].src # s

(***************************************************************************)
(* parse_msp_payload on payloads built from commands: a command count, 8   *)
(* more header bytes, the commands one after the other, the whole cut      *)
(* after any number of bytes, a filler byte put after every two bytes and  *)
(* the result written in hex.                                              *)
(***************************************************************************)
MaxCommands == 2

\* a command: its payload-length byte and its column; row 1, attribute 1, and as many
\* glyph bytes as the length says
MspCommands == {[len |-> l, col |-> 2] : l \in {3, 4, 6}} \cup {[len |-> 6, col |-> 255]}

GlyphCount(c) == IF c.len < 4 THEN 0 ELSE c.len - 4

CommandBytes(c) == <<c.len, 0, 0, 1, c.col, 1>> \o [i \in 1..GlyphCount(c) |-> 64 + i]

RECURSIVE Concat(_)
Concat(ss) == IF ss = << >> THEN << >> ELSE ss[1] \o Concat(Tail(ss))

FullData(m) ==
    <<m.count, 0, 0, 0, 0, 0, 0, 0, 0>> \o Concat([k \in 1..Len(m.commands) |-> CommandBytes(m.commands[k])])

\* the de-interleaved bytes of the payload
DataOf(m) == SubSeq(FullData(m), 1, m.cut)

MspInputs ==
    {m \in [count : 0..(MaxCommands + 1),
            commands : UNION {[1..n -> MspCommands] : n \in 0..MaxCommands},
            cut : {0, 8} \cup 9..(9 + 8 * MaxCommands)] : m.cut <= Len(FullData(m))}

\* two data bytes, then a filler byte
RECURSIVE Interleave(_)
Interleave(data) ==
    IF Len(data) <= 1 THEN data
    ELSE <<data[1], data[2], 255>> \o Interleave(SubSeq(data, 3, Len(data)))

HexDigit(n) ==
    <<"0", "1", "2", "3", "4", "5", "6", "7", "8", "9", "a", "b", "c", "d", "e", "f">>[n + 1]

\* the payload as text: two hex digits and a space per byte
HexText(bytes) ==
    Concat([k \in 1..Len(bytes) |-> <<HexDigit(bytes[k] \div 16), HexDigit(bytes[k] % 16), " ">>])

InitPayload ==
    /\ msp \in MspInputs
    /\ payloadText = HexText(Interleave(DataOf(msp)))
    /\ payloadPc = "call"
    /\ payloadRet = None
    /\ payloadReads = {}
    /\ ExtQuiet
    /\ CharacterQuiet
    /\ SizeQuiet
    /\ OverlayQuiet
    /\ SessionQuiet
    /\ WrapQuiet
    /\ UiQuiet
    /\ HandlersQuiet
    /\ RenderQuiet
    /\ SrtQuiet

\* parse_msp_payload(payloadText)
ParsePayload ==
    /\ payloadPc = "call"
    /\ payloadRet' = parse_msp_payload(payloadText)
    /\ payloadReads' = parse_msp_payload_reads(payloadText)
    /\ payloadPc' = "returned"
    /\ UNCHANGED <<msp, payloadText>>
    /\ UNCHANGED <<handlerVars, renderVars, srtVars, extVars, characterVars, sizeVars,
                   overlayVars, sessionVars, wrapVars, uiVars>>

NextPayload == ParsePayload

SpecPayload == InitPayload /\ [][NextPayload]_vars

\* where command k of the payload starts in the data, offsets from 0
RECURSIVE CommandStart(_, _)
CommandStart(m, k) ==
    IF k = 1 THEN 9 ELSE CommandStart(m, k - 1) + 6 + GlyphCount(m.commands[k - 1])

\* the glyphs of a command whose header and glyph bytes lie before offset limit;
\* Column(col, i) is where glyph i goes
CommandGlyphs(m, k, limit, Column(_, _)) ==
    IF CommandStart(m, k) + 6 > limit THEN << >>
    ELSE LET avail == limit - (CommandStart(m, k) + 6)
             got   == IF GlyphCount(m.commands[k]) <= avail THEN GlyphCount(m.commands[k])
                      ELSE avail
         IN  [i \in 1..got |-> [row |-> 1, col |-> Column(m.commands[k].col, i - 1),
                                idx |-> 256 + 64 + i]]

\* the glyphs of the first count commands that lie before offset limit
LayoutGlyphs(m, limit, Column(_, _)) ==
    Concat([k \in 1..(IF m.count < Len(m.commands) THEN m.count ELSE Len(m.commands)) |->
               CommandGlyphs(m, k, limit, Column)])

PlainColumn(col, i) == col + i
CappedColumn(col, i) == IF col + i > 255 THEN 255 ELSE col + i

\* a whole payload whose commands all have a payload-length of 4 or more
WholePayloadParsed ==
    /\ payloadPc = "returned"
    /\ msp.cut = Len(FullData(msp))
    /\ \A k \in 1..Len(msp.commands) : msp.commands[k].len >= 4

\* C23 as stated: the count is byte 0, the commands start at offset 9 and follow one
\* another without a gap, each a 6-byte header and payload-length minus 4 glyph bytes,
\* and glyph i of a command is at the command's row and at its column plus i
C23_LayoutColumnPlusI ==
    WholePayloadParsed =>
        payloadRet = Some(LayoutGlyphs(msp, Len(FullData(msp)), PlainColumn))

\* C23 amended: the same layout, with glyph i of a command at the command's row and at
\* its column plus i, capped at 255
C23_LayoutColumnCapped ==
    WholePayloadParsed =>
        payloadRet = Some(LayoutGlyphs(msp, Len(FullData(msp)), CappedColumn))

\* two commands of two glyphs each, the first at column 255: its second glyph is at 255
\* and the second command's glyphs follow from its own column
C23_Witness ==
    /\ WholePayloadParsed
    /\ msp.count = 2
    /\ Len(msp.commands) = 2
    /\ msp.commands[1] = [len |-> 6, col |-> 255]
    /\ msp.commands[2] = [len |-> 6, col |-> 2]
    /\ payloadRet = Some(<<[row |-> 1, col |-> 255, idx |-> 321], [row |-> 1, col |-> 255, idx |-> 322],
                           [row |-> 1, col |-> 2, idx |-> 321], [row |-> 1, col |-> 3, idx |-> 322]>>)

\* C27: parse_msp_payload reads no byte past the end of the data; data of fewer than 9
\* bytes gives no result; otherwise the result is the glyphs of the commands, up to the
\* command count, whose header and glyph bytes are in the data, so a count or a
\* payload-length beyond the data ends the parse at the end of the data with the glyphs
\* read so far, and a payload-length below 4 gives no glyph for its command.
C27_ParseStaysInData ==
    payloadPc = "returned" =>
        /\ \A offset \in payloadReads : offset < Len(DataOf(msp))
        /\ Len(DataOf(msp)) < 9 => payloadRet = None
        /\ Len(DataOf(msp)) >= 9 =>
              payloadRet = Some(LayoutGlyphs(msp, Len(DataOf(msp)), CappedColumn))

\* a payload that announces three commands and is cut inside the glyph bytes of its
\* second command, the first having a payload-length of 3
C27_Witness ==
    /\ payloadPc = "returned"
    /\ msp.count = 3
    /\ Len(msp.commands) = 2
    /\ msp.commands[1].len = 3
    /\ msp.commands[2].len = 6
    /\ msp.cut = Len(FullData(msp)) - 1
    /\ IsSome(payloadRet)
    /\ Len(Unwrap(payloadRet)) = 1
    /\ payloadReads = {0} \cup {9, 12, 13, 14} \cup {15, 18, 19, 20, 21}

(***************************************************************************)
(* overlay_srt_data called on a list of segments, a canvas and a text      *)
(* position.                                                               *)
(***************************************************************************)
MaxSegments == 3

SegmentSeqs == UNION {[1..n -> SegmentTexts] : n \in 0..MaxSegments}

InitWrap ==
    /\ segments \in SegmentSeqs
    /\ image_dimensions \in Canvases
    /\ x_start \in XStarts
    /\ wrapLines = << >>
    /\ wrapPc = "call"
    /\ ExtQuiet
    /\ CharacterQuiet
    /\ SizeQuiet
    /\ OverlayQuiet
    /\ SessionQuiet
    /\ PayloadQuiet
    /\ UiQuiet
    /\ HandlersQuiet
    /\ RenderQuiet
    /\ SrtQuiet

OverlaySrtData ==
    /\ wrapPc = "call"
    /\ wrapLines' = overlay_srt_data(segments, image_dimensions, x_start)
    /\ wrapPc' = "returned"
    /\ UNCHANGED <<segments, image_dimensions, x_start>>
    /\ UNCHANGED <<handlerVars, renderVars, srtVars, extVars, characterVars, sizeVars,
                   overlayVars, sessionVars, payloadVars, uiVars>>

NextWrap == OverlaySrtData

SpecWrap == InitWrap /\ [][NextWrap]_vars

\* canvas width less the text's x position less the padding, and 100 at least
AvailableWidth ==
    LET w == image_dimensions[1] - x_start - (10 * image_dimensions[2]) \div 1080
    IN  IF w < 100 THEN 100 ELSE w

\* the ways to cut n segments into consecutive groups: the sizes of the groups
RECURSIVE SumOf(_)
SumOf(s) == IF s = << >> THEN 0 ELSE s[1] + SumOf(Tail(s))

Cuts(n) == {s \in UNION {[1..m -> 1..n] : m \in 0..n} : SumOf(s) = n}

\* segments from..to joined by the separator
RECURSIVE Joined(_, _)
Joined(from, to) ==
    IF from > to THEN << >>
    ELSE IF from = to THEN segments[from]
    ELSE segments[from] \o <<" ", " ">> \o Joined(from + 1, to)

FirstOf(s, i) == 1 + SumOf(SubSeq(s, 1, i - 1))
LastOf(s, i) == SumOf(SubSeq(s, 1, i))

\* C24: the lines are the segments cut into consecutive non-empty groups, each group
\* joined by the separator, so every segment is in exactly one line and in order; a
\* segment joins the current line unless the line has a segment already and would become
\* wider than the available width, so a line of two or more segments is never wider than
\* that, a segment wider than that is alone on its line, and no line is empty.
C24_GreedyWrap ==
    wrapPc = "returned" =>
        \E s \in Cuts(Len(segments)) :
            /\ Len(wrapLines) = Len(s)
            /\ \A i \in 1..Len(s) :
                  /\ wrapLines[i] = Joined(FirstOf(s, i), LastOf(s, i))
                  /\ wrapLines[i] # << >>
                  /\ \A k \in (FirstOf(s, i) + 1)..LastOf(s, i) :
                        text_size(Joined(FirstOf(s, i), k)) <= AvailableWidth
                  /\ i < Len(s) =>
                        text_size(Joined(FirstOf(s, i), LastOf(s, i) + 1)) > AvailableWidth
                  /\ text_size(segments[FirstOf(s, i)]) > AvailableWidth =>
                        LastOf(s, i) = FirstOf(s, i)

\* two narrow segments share the first line and a segment wider than the available
\* width is alone on the second
C24_Witness ==
    /\ wrapPc = "returned"
    /\ segments = << <<"i">>, <<"i">>, <<"W", "W", "W">> >>
    /\ AvailableWidth = 100
    /\ wrapLines = << <<"i", " ", " ", "i">>, <<"W", "W", "W">> >>

(***************************************************************************)
(* The top panel: the "Open files" button and the dropped files            *)
(* (import_files), the "Reset files" button (reset_files), and a render    *)
(* that starts and ends.  The loaded files are Options of a file name;     *)
(* video_info is present exactly when video_file is.                       *)
(***************************************************************************)
\* the files of one dialog result or one drop, by extension
FileHandles ==
    [mp4 : {None, Some("v1.mp4"), Some("v2.mp4")}, osd : {None, Some("o.osd")},
     png : {None, Some("f.png")}, srt : {None, Some("t.srt")}]

NoHandles == [mp4 |-> None, osd |-> None, png |-> None, srt |-> None]

BundledFont == Some("(bundled)")

\* RenderStatus::is_not_in_progress
is_not_in_progress(status) == status # "InProgress"

\* import_video_file, import_osd_file, import_font_file, import_srt_file: the loaded file
\* is replaced when the handles hold a file of the extension
import_file(loaded, handle) == IF IsSome(handle) THEN handle ELSE loaded

\* auto_select_bundled_font: with a video and an OSD file loaded, a font that is absent or
\* bundled gives way to the bundled font of the firmware and character size, if any
auto_select_bundled_font(video_info, osd, font, bundled) ==
    IF IsSome(video_info) /\ IsSome(osd) /\ (font = None \/ font = BundledFont) /\ IsSome(bundled)
    THEN bundled
    ELSE font

\* the block both branches of import_files run on their file handles
import_handles(file_handles, bundled) ==
    /\ video_file' = import_file(video_file, file_handles.mp4)
    /\ loaded_osd_file' = import_file(loaded_osd_file, file_handles.osd)
    /\ font_file' = import_file(auto_select_bundled_font(video_file', loaded_osd_file',
                                                         font_file, bundled),
                                file_handles.png)
    /\ srt_file' = import_file(srt_file, file_handles.srt)
    /\ render_status' = "Idle"

\* import_files in a frame with the button clicked (if it is enabled) and the dialog
\* returning picked, and with the files dropped on the window
import_files(clicked, picked, dropped, bundled) ==
    IF is_not_in_progress(render_status) /\ clicked /\ IsSome(picked)
    THEN import_handles(Unwrap(picked), bundled)
    ELSE IF dropped # NoHandles
    THEN import_handles(dropped, bundled)
    ELSE UNCHANGED <<render_status, video_file, loaded_osd_file, font_file, srt_file>>

InitTopPanel ==
    /\ render_status = "Idle"
    /\ video_file = None
    /\ loaded_osd_file = None
    /\ font_file = None
    /\ srt_file = None
    /\ topEvent = "none"
    /\ EncoderQuiet
    /\ OsdQuiet
    /\ HandlersQuiet
    /\ RenderQuiet
    /\ SrtQuiet

\* a click on "Open files"; the dialog returns files or is cancelled
OpenFiles ==
    /\ \E picked \in {None} \cup {Some(h) : h \in FileHandles \ {NoHandles}},
          bundled \in {None, BundledFont} :
          import_files(TRUE, picked, NoHandles, bundled)
    /\ topEvent' = "open"
    /\ UNCHANGED <<handlerVars, renderVars, srtVars, osdVars, encoderVars>>

\* files dropped on the window
DropFiles ==
    /\ \E dropped \in FileHandles \ {NoHandles}, bundled \in {None, BundledFont} :
          import_files(FALSE, None, dropped, bundled)
    /\ topEvent' = "drop"
    /\ UNCHANGED <<handlerVars, renderVars, srtVars, osdVars, encoderVars>>

\* reset_files in a frame with a click on "Reset files"
ResetFiles ==
    /\ IF is_not_in_progress(render_status)
       THEN /\ video_file' = None
            /\ loaded_osd_file' = None
            /\ font_file' = None
            /\ srt_file' = None
            /\ render_status' = "Idle"
       ELSE UNCHANGED <<render_status, video_file, loaded_osd_file, font_file, srt_file>>
    /\ topEvent' = "reset"
    /\ UNCHANGED <<handlerVars, renderVars, srtVars, osdVars, encoderVars>>

\* the render of the loaded video starts
StartRender ==
    /\ is_not_in_progress(render_status)
    /\ IsSome(video_file)
    /\ render_status' = "InProgress"
    /\ topEvent' = "render"
    /\ UNCHANGED <<video_file, loaded_osd_file, font_file, srt_file>>
    /\ UNCHANGED <<handlerVars, renderVars, srtVars, osdVars, encoderVars>>

\* the render ends
FinishRender ==
    /\ render_status = "InProgress"
    /\ render_status' = "Completed"
    /\ topEvent' = "render"
    /\ UNCHANGED <<video_file, loaded_osd_file, font_file, srt_file>>
    /\ UNCHANGED <<handlerVars, renderVars, srtVars, osdVars, encoderVars>>

NextTopPanel == OpenFiles \/ DropFiles \/ ResetFiles \/ StartRender \/ FinishRender

SpecTopPanel == InitTopPanel /\ [][NextTopPanel]_vars

\* C29: while a render is in progress, an open-files, drop-files or reset-files event
\* leaves the video, OSD, font and telemetry files and render_status as they are.
C29_FilesFixedWhileRendering ==
    [][(render_status = "InProgress" /\ topEvent' \in {"open", "drop", "reset"})
          => UNCHANGED <<render_status, video_file, loaded_osd_file, font_file, srt_file>>]_vars

(***************************************************************************)
(* The encoder row of the rendering options: the encoder list box and the  *)
(* "show undetected encoders" checkbox.  An encoder is a name and whether  *)
(* it was detected; optionsPc is "shown", then "selected" or "toggled"     *)
(* after an event, or "panicked".                                          *)
(***************************************************************************)
MaxEncoders == 4

EncoderNames == <<"h264_nvenc", "libx264", "hevc_amf", "libx265", "h264_qsv", "hevc_nvenc">>

\* the encoder lists of the application: each encoder detected or not
EncoderLists ==
    {[k \in 1..n |-> [name |-> EncoderNames[k], detected |-> d[k]]] :
        n \in 0..MaxEncoders, d \in [1..MaxEncoders -> BOOLEAN]}

\* self.encoders.iter().filter(|e| show_undetected_encoders || e.detected).collect()
selectable_encoders(all, show_undetected) ==
    LET shown(e) == show_undetected \/ e.detected
    IN  SelectSeq(all, shown)

\* RenderSettings::default()
InitEncoderOptions ==
    /\ encoders \in EncoderLists
    /\ show_undetected_encoders = FALSE
    /\ selected_encoder_idx = 0
    /\ encoder = [name |-> "libx264", detected |-> FALSE]
    /\ optionsPc = "shown"
    /\ TopQuiet
    /\ OsdQuiet
    /\ HandlersQuiet
    /\ RenderQuiet
    /\ SrtQuiet

\* rendering_options in a frame where another entry of the list box is chosen
SelectEncoder ==
    /\ optionsPc # "panicked"
    /\ \E i \in 0..(Len(selectable_encoders(encoders, show_undetected_encoders)) - 1) :
          /\ i # selected_encoder_idx
          /\ selected_encoder_idx' = i
          /\ encoder' = selectable_encoders(encoders, show_undetected_encoders)[i + 1]
    /\ optionsPc' = "selected"
    /\ UNCHANGED <<encoders, show_undetected_encoders>>
    /\ UNCHANGED <<handlerVars, renderVars, srtVars, osdVars, topVars>>

\* rendering_options in a frame where the checkbox is clicked: the list was filtered
\* before the checkbox changed the flag
ToggleShowUndetected ==
    /\ optionsPc # "panicked"
    /\ show_undetected_encoders' = ~show_undetected_encoders
    /\ selected_encoder_idx' = 0
    /\ IF selectable_encoders(encoders, show_undetected_encoders) = << >>
       THEN /\ optionsPc' = "panicked"
            /\ UNCHANGED encoder
       ELSE /\ encoder' = selectable_encoders(encoders, show_undetected_encoders)[1]
            /\ optionsPc' = "toggled"
    /\ UNCHANGED encoders
    /\ UNCHANGED <<handlerVars, renderVars, srtVars, osdVars, topVars>>

NextEncoderOptions == SelectEncoder \/ ToggleShowUndetected

SpecEncoderOptions == InitEncoderOptions /\ [][NextEncoderOptions]_vars

\* the list the list box shows now
ShownEncoders ==
    SelectSeq(encoders, LAMBDA e : show_undetected_encoders \/ e.detected)

\* C30: after any selection and toggle events the encoder of the render settings is the
\* one at selected_encoder_idx in the encoder list filtered by the current
\* show_undetected_encoders, an undetected encoder is not the encoder while the flag is
\* false, and no toggle fails, not even on an empty list.
C30_EncoderIsTheSelectedOne ==
    /\ optionsPc # "panicked"
    /\ optionsPc \in {"selected", "toggled"} =>
          /\ selected_encoder_idx < Len(ShownEncoders)
          /\ encoder = ShownEncoders[selected_encoder_idx + 1]
          /\ ~show_undetected_encoders => encoder.detected

====
